---- MODULE Spec2Model ----
(***************************************************************************)
(* A model of wipctl, the workspace-wide Git WIP synchronizer:             *)
(*   - workspace.Discover          (repository discovery)                   *)
(*   - the bounded fan-out of runPush / runPull / CollectStatus /           *)
(*     WorkspaceProcessor.processConcurrently                               *)
(*   - the per-repository handlers processRepoPush, processRepoPull,        *)
(*     processEnhancedCheckpointRepo and the gitexec verbs they call        *)
(*   - report.Report                                                        *)
(***************************************************************************)
EXTENDS Integers, Sequences, FiniteSets, TLC

VARIABLES
    \* ---- workspace.Discover ----
    tree,       \* the workspace directory tree: path -> kind of the entry
    todo,       \* filepath.Walk: the entries still to visit, next first
    pending,    \* the validation goroutines started and not yet finished
    found,      \* repos: the slice the goroutines append to
    werr,       \* the error filepath.Walk returned, if any
    dpc,        \* "walking" | "returned" | "error" | "norepos" | "processing" |
                \* "off" (outside a discovery)
    \* ---- one run of a command over the discovered repositories ----
    op,         \* "push" | "pull" | "pullParsed" | "status" | "checkpoint" |
                \* "review" | "generic" | "none"
    cfg,        \* the flags: concurrency, dryRun, autoAdd, and the run's clock
    repos,      \* the discovered repositories: a sequence of [Path, Name]
    git,        \* the repositories on disk: Path -> state of the working copy
    git0,       \* git as it was when the run started
    upc,        \* position of the unit of work (goroutine) of each repository
    local,      \* each unit's handler result, before it is appended
    calls,      \* the Executor calls each unit's handler made, in order
    sem,        \* slots of the semaphore channel in use
    mu,         \* holder of the mutex (0: free)
    wg,         \* the WaitGroup counter
    report,     \* Report.Entries
    results,    \* CollectStatus: Name -> status
    mainpc,     \* position of the command's own goroutine
    next,       \* index of the next repository of the command's loop
    cand,       \* runCheckpoint: the candidates still to process
    cpcalls,    \* runCheckpoint: the Executor calls made for each candidate
    saved,      \* the calls of rep.Save(), each with whether it wrote the file
    cancelled,  \* << >>, or <<S>> once the operation context is cancelled, S the
                \* units whose handler was running at that moment
    reportDir,  \* the report directory: file name |-> content
    totals      \* runCheckpoint: the counters and summary of the CheckpointReport

dvars == <<tree, todo, pending, found, werr, dpc>>

rvars == <<op, cfg, repos, git, git0, upc, local, calls, sem, mu, wg, report,
           results, mainpc, next, cand, cpcalls, saved, cancelled, reportDir,
           totals>>

vars == <<tree, todo, pending, found, werr, dpc, op, cfg, repos, git, git0, upc,
          local, calls, sem, mu, wg, report, results, mainpc, next, cand, cpcalls,
          saved, cancelled, reportDir, totals>>

-----------------------------------------------------------------------------
(* Bounds *)

\* Most entries (files and directories) below the workspace root.
MaxEntries == 3

\* Most repositories in a run of the fan-out.
MaxRepos == 2

\* Largest concurrency limit tried.
MaxK == 2

\* Most Executor calls of one handler invocation that fail for reasons outside
\* the repository's state (network, permissions, a cancelled context).
MaxFailures == 2

\* ... and in a run over several repositories.
MaxFanFailures == 1

-----------------------------------------------------------------------------
(* The parts of the state a specification does not use *)

\* NewCheckpointReport: every counter zero, no summary.
NewCheckpointReport ==
    [ProcessedRepos |-> 0, SuccessfulRepos |-> 0, FailedRepos |-> 0,
     SkippedRepos |-> 0, TotalFiles |-> 0, TotalLines |-> 0,
     WorkspaceChanges |-> << >>]

RunOff ==
    /\ op = "none"
    /\ cfg = [K |-> 1, dryRun |-> FALSE, autoAdd |-> FALSE, aiCommit |-> FALSE,
              aiReview |-> FALSE, reqReport |-> FALSE, now |-> 1]
    /\ repos = << >>
    /\ git = << >>
    /\ git0 = << >>
    /\ upc = << >>
    /\ local = << >>
    /\ calls = << >>
    /\ sem = 0
    /\ mu = 0
    /\ wg = 0
    /\ report = << >>
    /\ results = << >>
    /\ mainpc = "off"
    /\ next = 1
    /\ cand = {}
    /\ cpcalls = << >>
    /\ saved = << >>
    /\ cancelled = << >>
    /\ reportDir = << >>
    /\ totals = NewCheckpointReport

DiscoverOff ==
    /\ tree = << >>
    /\ todo = << >>
    /\ pending = {}
    /\ found = << >>
    /\ werr = FALSE
    /\ dpc = "off"

-----------------------------------------------------------------------------
(* workspace.Discover *)

GitName == ".git"

\* Entry names, in the lexical order filepath.Walk visits them.
Names == {GitName, "a"}

\* "dir": a directory; "gitfile": a regular file whose content begins with
\* "gitdir: "; "file": any other regular file.
KindsOf(n) == IF n = GitName THEN {"dir", "gitfile", "file"} ELSE {"dir", "file"}

Root == << >>

EmptyTree == [p \in {} |-> "dir"]

IsDir(t, p) == p = Root \/ (p \in DOMAIN t /\ t[p] = "dir")

Dir(p) == SubSeq(p, 1, Len(p) - 1)

Base(p) == IF p = Root THEN "." ELSE p[Len(p)]

\* One more entry below an existing directory.
Grow(t) ==
    { t @@ (Append(d, n) :> k) :
        d \in {q \in DOMAIN t \cup {Root} : IsDir(t, q)},
        n \in Names, k \in {"dir", "gitfile", "file"} }

GrowOk(t) ==
    { u \in Grow(t) :
        /\ Cardinality(DOMAIN u) = Cardinality(DOMAIN t) + 1
        /\ \A p \in DOMAIN u : u[p] \in KindsOf(Base(p)) }

RECURSIVE TreesUpTo(_)
TreesUpTo(n) ==
    IF n = 0 THEN {EmptyTree}
    ELSE LET S == TreesUpTo(n - 1)
         IN  S \cup UNION {GrowOk(t) : t \in S}

\* The entries of directory p, in lexical order.
Children(t, p) ==
    LET first == Append(p, GitName)
        second == Append(p, "a")
    IN  (IF first \in DOMAIN t THEN <<first>> ELSE << >>)
        \o (IF second \in DOMAIN t THEN <<second>> ELSE << >>)

\* isValidGitRepo: os.Stat(path/.git); a directory is valid, a file is valid
\* when its content begins with "gitdir: ".
isValidGitRepo(t, path) ==
    LET gitDir == Append(path, GitName)
    IN  IF gitDir \notin DOMAIN t THEN FALSE
        ELSE IF t[gitDir] = "dir" THEN TRUE
        ELSE t[gitDir] = "gitfile"

InitDiscover ==
    /\ tree \in TreesUpTo(MaxEntries)
    /\ todo = <<Root>>
    /\ pending = {}
    /\ found = << >>
    /\ werr = FALSE
    /\ dpc = "walking"
    /\ RunOff

\* The walk callback on the next entry (workspace.go:22-55).
DiscoverVisit ==
    /\ dpc = "walking"
    /\ todo # << >>
    /\ LET p == Head(todo)
       IN  IF ~IsDir(tree, p)
           THEN \* if !info.IsDir() { return nil }
                /\ todo' = Tail(todo)
                /\ UNCHANGED pending
           ELSE IF Base(p) = GitName
           THEN \* go func() { ... }(); return filepath.SkipDir
                /\ pending' = pending \cup {Dir(p)}
                /\ todo' = Tail(todo)
           ELSE /\ todo' = Children(tree, p) \o Tail(todo)
                /\ UNCHANGED pending
    /\ UNCHANGED <<tree, found, werr, dpc>>
    /\ UNCHANGED rvars

\* The walk reports an error for the next entry: the callback returns it and
\* the walk stops (workspace.go:23-25).
DiscoverWalkError ==
    /\ dpc = "walking"
    /\ todo # << >>
    /\ todo' = << >>
    /\ werr' = TRUE
    /\ UNCHANGED <<tree, pending, found, dpc>>
    /\ UNCHANGED rvars

\* One validation goroutine (workspace.go:36-49).
DiscoverValidate ==
    /\ dpc = "walking"
    /\ \E rp \in pending :
        /\ pending' = pending \ {rp}
        /\ found' = IF isValidGitRepo(tree, rp) THEN Append(found, rp) ELSE found
    /\ UNCHANGED <<tree, todo, werr, dpc>>
    /\ UNCHANGED rvars

\* The return as it would be were the list kept on a walk error.
DiscoverReturnPartial ==
    /\ dpc = "walking"
    /\ todo = << >>
    /\ pending = {}
    /\ dpc' = "returned"
    /\ found' = found
    /\ UNCHANGED <<tree, todo, pending, werr>>
    /\ UNCHANGED rvars

\* wg.Wait() and the return (workspace.go:57-63).
DiscoverReturn ==
    /\ dpc = "walking"
    /\ todo = << >>
    /\ pending = {}
    /\ dpc' = "returned"
    /\ found' = IF werr THEN << >> ELSE found
    /\ UNCHANGED <<tree, todo, pending, werr>>
    /\ UNCHANGED rvars

\* The command on Discover's return (push.go:86-96, and the same in status,
\* pull, checkpoint and review): it returns the error, or returns nil when no
\* repository was found, or goes on to process the repositories.
DiscoverCaller ==
    /\ dpc = "returned"
    /\ dpc' = IF werr THEN "error"
              ELSE IF Len(found) = 0 THEN "norepos" ELSE "processing"
    /\ UNCHANGED <<tree, todo, pending, found, werr>>
    /\ UNCHANGED rvars

NextDiscover ==
    \/ DiscoverVisit
    \/ DiscoverWalkError
    \/ DiscoverValidate
    \/ DiscoverReturn
    \/ DiscoverCaller

SpecDiscover == InitDiscover /\ [][NextDiscover]_vars

-----------------------------------------------------------------------------
(* package gitexec: the repository on disk and the Executor verbs *)

\* Text is a sequence of tokens; the empty text is << >>.
MainBranch == <<"main">>

TsToks == <<"1", "2", "3">>

\* fmt.Sprintf("wip/%s/%s", hostName, time.Now().Format("20060102-150405"))
WipName(t) == <<"wip", "h", TsToks[t]>>

Branches == {MainBranch} \cup {WipName(t) : t \in 1..Len(TsToks)}

OriginPrefix == "refs/remotes/origin/"

RefOf(b) == <<OriginPrefix>> \o b

\* strings.TrimPrefix(remoteRef, "refs/remotes/origin/")
TrimOrigin(remoteRef) ==
    IF remoteRef # << >> /\ Head(remoteRef) = OriginPrefix
    THEN Tail(remoteRef) ELSE remoteRef

TrackedPath == <<"main.go">>
PlainPath == <<"notes.txt">>
JunkPath == <<"node_modules", "/x.js">>

\* The alternatives of junkRegex, which is unanchored and case-insensitive.
JunkWords ==
    {"node_modules", ".venv", "venv", "dist", "build", ".tox", ".ruff_cache",
     ".mypy_cache", ".pytest_cache", ".ds_store", "coverage", ".cache"}

Lower(tok) == IF tok = ".DS_Store" THEN ".ds_store" ELSE tok

\* junkRegex.MatchString(file)
JunkMatch(file) == \E i \in 1..Len(file) : Lower(file[i]) \in JunkWords

\* Committer dates as git prints them with %(committerdate:iso8601): date,
\* time and zone separated by single spaces. day, hour and zone (hours east
\* of UTC) are what the text denotes.
Stamps ==
    << [text |-> <<"2024-01-01", " ", "20:00:00", " ", "-0800">>,
        day |-> 1, hour |-> 20, zone |-> -8],
       [text |-> <<"2024-01-02", " ", "01:00:00", " ", "+0000">>,
        day |-> 2, hour |-> 1, zone |-> 0],
       [text |-> <<"2024-01-03", " ", "00:00:00", " ", "+0000">>,
        day |-> 3, hour |-> 0, zone |-> 0] >>

\* The committer date of the commits a run makes.
RunStamp == Len(Stamps)

\* The instant a stamp denotes, in hours.
Instant(k) == Stamps[k].day * 24 + Stamps[k].hour - Stamps[k].zone

\* A working directory that is no repository (or does not exist).
NoGit ==
    [exists |-> FALSE, hasOrigin |-> FALSE, inProgress |-> FALSE,
     branch |-> << >>, modified |-> {}, staged |-> {}, untracked |-> {},
     unmerged |-> {}, stash |-> << >>, lastMsg |-> "", heads |-> [b \in Branches |-> 0],
     origin |-> [b \in Branches |-> 0],
     track |-> [b \in Branches |-> 0], remote |-> [b \in Branches |-> 0]]

At(G, dir) == IF dir \in DOMAIN G THEN G[dir] ELSE NoGit

RECURSIVE Lines(_)
\* The members of a set of paths, one per output line.
Lines(S) ==
    IF S = {} THEN << >>
    ELSE LET x == CHOOSE y \in S : TRUE IN <<x>> \o Lines(S \ {x})

\* strings.Split(text, "\n") of output given as its lines: the empty text
\* splits into one empty string.
SplitLines(out) == IF out = << >> THEN << << >> >> ELSE out

\* The subprocess at a call site runs and exits zero, as far as the
\* environment goes; o is the set of call sites that fail in this invocation.
RunsOk(g, o, site) == g.exists /\ site \notin o

Res(g, ok, ran) == [git |-> g, ok |-> ok, ran |-> ran]

\* git status --porcelain: one line per changed, staged, unmerged or
\* untracked path.
Porcelain(g) == Lines(g.modified \cup g.staged \cup g.unmerged \cup g.untracked)

getDirtyCount(g) == Len(SplitLines(Porcelain(g)))

getUntrackedFiles(g) ==
    IF Lines(g.untracked) = << >> THEN << >> ELSE SplitLines(Lines(g.untracked))

\* git remote get-url origin: any failure to run it reads as "no origin".
hasOrigin(g, o) == RunsOk(g, o, "getUrl") /\ g.hasOrigin

\* sh -c 'cd repoPath && (test -d .git/rebase-apply || ...)': any failure to
\* run it reads as "not in progress".
isInProgress(g, o) == RunsOk(g, o, "progressTest") /\ g.inProgress

\* git rev-list --left-right --count @{u}...HEAD; any failure counts as 0.
getAhead(g) ==
    IF g.exists /\ g.branch \in Branches /\ g.origin[g.branch] > 0
       /\ g.heads[g.branch] > g.origin[g.branch]
    THEN g.heads[g.branch] - g.origin[g.branch] ELSE 0

\* git rev-list --count HEAD
getCommitCount(g) ==
    IF g.exists /\ g.branch \in Branches THEN g.heads[g.branch] ELSE 0

EmptyStatus ==
    [Branch |-> << >>, Dirty |-> 0, Untracked |-> 0, Ahead |-> 0,
     HasOrigin |-> FALSE, InProgress |-> FALSE, Error |-> "", Commits |-> 0]

\* gitexec.Status: the returned error is always nil; a failed query sets Error
\* and leaves the later fields zero.
Status(g, o) ==
    IF ~RunsOk(g, o, "getBranch")
    THEN [EmptyStatus EXCEPT !.Error = "get branch"]
    ELSE LET s1 == [EmptyStatus EXCEPT !.Branch = g.branch,
                                       !.HasOrigin = hasOrigin(g, o),
                                       !.InProgress = isInProgress(g, o)]
         IN  IF ~s1.HasOrigin \/ s1.InProgress THEN s1
             ELSE IF ~RunsOk(g, o, "getDirty")
             THEN [s1 EXCEPT !.Error = "get dirty count"]
             ELSE IF ~RunsOk(g, o, "getUntracked")
             THEN [s1 EXCEPT !.Dirty = getDirtyCount(g), !.Error = "get untracked"]
             ELSE [s1 EXCEPT !.Dirty = getDirtyCount(g),
                             !.Untracked = Len(getUntrackedFiles(g)),
                             !.Ahead = getAhead(g),
                             !.Commits = getCommitCount(g)]

Preconditions(g, o) ==
    IF ~hasOrigin(g, o) THEN [ok |-> FALSE, reason |-> "no origin remote"]
    ELSE IF isInProgress(g, o) THEN [ok |-> FALSE, reason |-> "rebase/merge in progress"]
    ELSE [ok |-> TRUE, reason |-> ""]

HasJunkFiles(g, o) ==
    IF ~RunsOk(g, o, "junkList")
    THEN [has |-> FALSE, files |-> << >>, err |-> TRUE]
    ELSE LET junkFiles == SelectSeq(getUntrackedFiles(g), JunkMatch)
         IN  [has |-> Len(junkFiles) > 0, files |-> junkFiles, err |-> FALSE]

\* The id of the next commit: commits are numbered in the order made.
RECURSIVE MaxOf(_)
MaxOf(S) ==
    IF S = {} THEN 0
    ELSE LET x == CHOOSE y \in S : TRUE
             m == MaxOf(S \ {x})
         IN  IF x > m THEN x ELSE m

NewCommit(g) ==
    1 + MaxOf({g.heads[b] : b \in Branches} \cup {g.origin[b] : b \in Branches})

IsWip(b) == b \in Branches /\ b # MainBranch

\* Fetch as it would be without the IsDryRun check.
FetchAlways(g, dry, o) ==
    IF ~RunsOk(g, o, "fetch") THEN Res(g, FALSE, TRUE)
    ELSE Res([g EXCEPT !.track = g.remote], TRUE, TRUE)

\* git fetch --prune --quiet
Fetch(g, dry, o) ==
    IF dry THEN Res(g, TRUE, FALSE)
    ELSE IF ~RunsOk(g, o, "fetch") THEN Res(g, FALSE, TRUE)
    ELSE Res([g EXCEPT !.track = g.remote], TRUE, TRUE)

\* git add -A
AddAll(g, dry, o) ==
    IF dry THEN Res(g, TRUE, FALSE)
    ELSE IF ~RunsOk(g, o, "add") THEN Res(g, FALSE, TRUE)
    ELSE Res([g EXCEPT !.staged = g.staged \cup g.modified \cup g.untracked
                                   \cup g.unmerged,
                       !.modified = {}, !.untracked = {}, !.unmerged = {}],
             TRUE, TRUE)

\* git commit --allow-empty -m message: git refuses an empty message.
CommitAllowEmpty(g, dry, o, message) ==
    IF dry THEN Res(g, TRUE, FALSE)
    ELSE IF ~RunsOk(g, o, "commit") \/ g.unmerged # {} \/ g.branch \notin Branches
            \/ message = ""
    THEN Res(g, FALSE, TRUE)
    ELSE Res([g EXCEPT !.heads[g.branch] = NewCommit(g), !.staged = {},
                       !.lastMsg = message],
             TRUE, TRUE)

\* git switch -C branch: create the branch at HEAD, or reset it to HEAD.
SwitchCreate(g, dry, o, branch) ==
    IF dry THEN Res(g, TRUE, FALSE)
    ELSE IF ~RunsOk(g, o, "switchCreate") \/ g.unmerged # {}
            \/ branch \notin Branches \/ g.branch \notin Branches
    THEN Res(g, FALSE, TRUE)
    ELSE Res([g EXCEPT !.heads[branch] = g.heads[g.branch], !.branch = branch],
             TRUE, TRUE)

\* git switch branch
Switch(g, dry, o, branch) ==
    IF dry THEN Res(g, TRUE, FALSE)
    ELSE IF ~RunsOk(g, o, "switch") \/ g.unmerged # {} \/ branch \notin Branches
    THEN Res(g, FALSE, TRUE)
    ELSE IF g.heads[branch] = 0 THEN Res(g, FALSE, TRUE)
    ELSE Res([g EXCEPT !.branch = branch], TRUE, TRUE)

\* What a successful push of branch does to origin and the tracking refs.
Pushed(g, branch) ==
    [g EXCEPT !.origin[branch] = g.heads[branch],
              !.remote[branch] = IF IsWip(branch) THEN RunStamp ELSE @,
              !.track[branch] = IF IsWip(branch) THEN RunStamp ELSE @]

PushRuns(g, o, site, branch) ==
    /\ RunsOk(g, o, site)
    /\ branch \in Branches
    /\ g.heads[branch] > 0
    /\ g.heads[branch] >= g.origin[branch]    \* else rejected: not a fast-forward

\* git push -u origin branch
PushUpstream(g, dry, o, branch) ==
    IF dry THEN Res(g, TRUE, FALSE)
    ELSE IF ~PushRuns(g, o, "pushUpstream", branch) THEN Res(g, FALSE, TRUE)
    ELSE Res(Pushed(g, branch), TRUE, TRUE)

\* git push origin branch
Push(g, dry, o, branch) ==
    IF dry THEN Res(g, TRUE, FALSE)
    ELSE IF ~PushRuns(g, o, "push", branch) THEN Res(g, FALSE, TRUE)
    ELSE Res(Pushed(g, branch), TRUE, TRUE)

\* git ls-remote --heads origin branch
RemoteHasBranch(g, o, branch) ==
    IF ~RunsOk(g, o, "lsRemote") THEN [has |-> FALSE, err |-> TRUE]
    ELSE [has |-> branch \in Branches /\ g.origin[branch] > 0, err |-> FALSE]

\* git stash push -u -m message: with nothing to save it exits zero and
\* pushes no entry.
Stash(g, dry, o) ==
    IF dry THEN Res(g, TRUE, FALSE)
    ELSE IF ~RunsOk(g, o, "stash") \/ g.unmerged # {} THEN Res(g, FALSE, TRUE)
    ELSE IF g.modified \cup g.staged \cup g.untracked = {} THEN Res(g, TRUE, TRUE)
    ELSE Res([g EXCEPT !.stash = <<[modified |-> g.modified, staged |-> g.staged,
                                    untracked |-> g.untracked,
                                    base |-> g.heads[g.branch]]>> \o g.stash,
                       !.modified = {}, !.staged = {}, !.untracked = {}],
             TRUE, TRUE)

\* git stash pop: applies the top entry; when it was made on another commit
\* and holds tracked changes, the apply conflicts, the paths are left unmerged
\* and the entry is kept.
StashPop(g, dry, o) ==
    IF dry THEN Res(g, TRUE, FALSE)
    ELSE IF ~RunsOk(g, o, "stashPop") \/ g.stash = << >> \/ g.unmerged # {}
    THEN Res(g, FALSE, TRUE)
    ELSE LET e == Head(g.stash)
         IN  IF e.base # g.heads[g.branch] /\ e.modified \cup e.staged # {}
             THEN Res([g EXCEPT !.unmerged = e.modified \cup e.staged,
                                !.untracked = g.untracked \cup e.untracked],
                      FALSE, TRUE)
             ELSE Res([g EXCEPT !.modified = g.modified \cup e.modified,
                                !.staged = g.staged \cup e.staged,
                                !.untracked = g.untracked \cup e.untracked,
                                !.stash = Tail(g.stash)],
                      TRUE, TRUE)

RECURSIVE Fields(_)
\* strings.Fields of output given as its lines: split at every white space,
\* that between lines and the " " tokens within one.
Fields(out) ==
    IF out = << >> THEN << >>
    ELSE LET line == Head(out)
             cut == IF \E i \in 1..Len(line) : line[i] = " "
                    THEN CHOOSE i \in 1..Len(line) :
                           line[i] = " " /\ \A j \in 1..(i - 1) : line[j] # " "
                    ELSE 0
         IN  IF line = << >> THEN Fields(Tail(out))
             ELSE IF cut = 0 THEN <<line>> \o Fields(Tail(out))
             ELSE (IF cut = 1 THEN << >> ELSE <<SubSeq(line, 1, cut - 1)>>)
                  \o Fields(<<SubSeq(line, cut + 1, Len(line))>> \o Tail(out))

\* git diff --name-only --diff-filter=U
HasConflicts(g, o) ==
    IF ~RunsOk(g, o, "diffU") THEN [has |-> FALSE, files |-> << >>, err |-> TRUE]
    ELSE LET conflicted == Fields(Lines(g.unmerged))
         IN  [has |-> Len(conflicted) > 0, files |-> conflicted, err |-> FALSE]

RECURSIVE ForEachRefFrom(_, _)
\* git for-each-ref --format='%(committerdate:iso8601) %(refname)'
\*   refs/remotes/origin/wip/ : one line per tracking ref, in refname order.
ForEachRefFrom(g, t) ==
    IF t > Len(TsToks) THEN << >>
    ELSE (IF g.track[WipName(t)] > 0
          THEN <<Stamps[g.track[WipName(t)]].text \o <<" ">> \o RefOf(WipName(t))>>
          ELSE << >>)
         \o ForEachRefFrom(g, t + 1)

ForEachRef(g) == ForEachRefFrom(g, 1)

\* strings.SplitN(line, " ", 2)
SplitN2(line) ==
    IF \E i \in 1..Len(line) : line[i] = " "
    THEN LET cut == CHOOSE i \in 1..Len(line) :
                      line[i] = " " /\ \A j \in 1..(i - 1) : line[j] # " "
         IN  <<SubSeq(line, 1, cut - 1), SubSeq(line, cut + 1, Len(line))>>
    ELSE <<line>>

\* time.Parse("2006-01-02 15:04:05 -0700", value): the value must be a date, a
\* time and a zone, and nothing else.
TimeParse(value) ==
    IF \E k \in 1..Len(Stamps) : Stamps[k].text = value
    THEN [ok |-> TRUE,
          t |-> Instant(CHOOSE k \in 1..Len(Stamps) : Stamps[k].text = value)]
    ELSE [ok |-> FALSE, t |-> 0]

RECURSIVE LatestLoop(_, _, _)
\* The loop of LatestRemoteWIP over the output lines.
LatestLoop(lines, latest, latestTime) ==
    IF lines = << >> THEN latest
    ELSE LET parts == SplitN2(Head(lines))
         IN  IF Len(parts) # 2 THEN LatestLoop(Tail(lines), latest, latestTime)
             ELSE LET p == TimeParse(parts[1])
                  IN  IF ~p.ok THEN LatestLoop(Tail(lines), latest, latestTime)
                      ELSE IF latest = << >> \/ p.t > latestTime
                      THEN LatestLoop(Tail(lines), parts[2], p.t)
                      ELSE LatestLoop(Tail(lines), latest, latestTime)

LatestRemoteWIP(g, o) ==
    IF ~RunsOk(g, o, "forEachRef") THEN [ref |-> << >>, err |-> TRUE]
    ELSE LET lines == SplitLines(ForEachRef(g))
         IN  IF Len(lines) = 0 \/ lines[1] = << >>
             THEN [ref |-> << >>, err |-> TRUE]
             ELSE LET latest == LatestLoop(lines, << >>, 0)
                  IN  [ref |-> latest, err |-> latest = << >>]

-----------------------------------------------------------------------------
(* package report *)

Warn(msg, files) == [msg |-> msg, files |-> files]

\* CreatePushEntry / CreatePullEntry: Details is set from the branches given.
CreateEntry(repo, details, outcome) ==
    [Repo |-> repo, Outcome |-> outcome, Details |-> details,
     Warnings |-> << >>, Errors |-> << >>]

AddWarning(e, w) == [e EXCEPT !.Warnings = Append(@, w)]

AddError(e, msg) == [e EXCEPT !.Errors = Append(@, msg)]

-----------------------------------------------------------------------------
(* package cmd: the per-repository handlers *)

Put(G, dir, g) == IF dir \in DOMAIN G THEN [G EXCEPT ![dir] = g] ELSE G

\* A record of one Executor call: mut marks the mutating verbs, ran whether a
\* git subprocess was started, ok that none it started exited non-zero.
Mut(verb, r) ==
    [verb |-> verb, mut |-> TRUE, ran |-> r.ran, ok |-> r.ok, msg |-> ""]

Query(verb, ok) ==
    [verb |-> verb, mut |-> FALSE, ran |-> TRUE, ok |-> ok, msg |-> ""]

\* The call of CommitAllowEmpty, with the message it is passed.
Commit(r, message) == [Mut("CommitAllowEmpty", r) EXCEPT !.msg = message]

\* generator.CommitMessage(ctx, input): gen is what it returns, an error, the
\* empty string or a text.
GeneratorCall(gen) ==
    [verb |-> "CommitMessage", mut |-> FALSE, ran |-> FALSE, ok |-> gen # "err",
     msg |-> IF gen = "text" THEN "generated" ELSE ""]

\* What a handler invocation leaves: the repositories on disk, the entry it
\* returns and the calls it made.
Ret(G, dir, g, entry, cs) == [G |-> Put(G, dir, g), entry |-> entry, calls |-> cs]

Outcome(e, tag) == [e EXCEPT !.Outcome = tag]

\* ui.Confirm(prompt): the call completes with the user's answer.
Prompt(verb, answer) ==
    [verb |-> verb, mut |-> FALSE, ran |-> FALSE, ok |-> TRUE,
     msg |-> IF answer THEN "yes" ELSE "no"]

\* generateCommitMessage: gen is what the generator returns, accept the user's
\* answer to "Accept this message?", asked with --ai-review.
generateCommitMessage(c, gen, accept) ==
    IF ~c.aiCommit THEN "fallback"
    ELSE IF gen = "err" THEN "fallback"
    ELSE IF gen = "empty" THEN "fallback"
    ELSE IF c.aiReview /\ ~accept THEN "fallback"
    ELSE "generated"

\* The staging decision as it would be were every repository staged.
StageDecisionAlways(c, confirm) == "add"

\* The staging decision of processRepoPush (push.go:179-192): confirm is the
\* user's answer to "Add all changes and continue?".
StageDecision(c, confirm) ==
    IF c.autoAdd THEN "add"
    ELSE IF c.K = 1 THEN (IF confirm THEN "add" ELSE "declined")
    ELSE "disallowed"

\* The switch back as it would be were its failure an operation failure.
SwitchBackFailedAsError(entry) ==
    AddError(Outcome(entry, "error"), "failed to switch back")

\* The switch back to the original branch failed (push.go:222-224): a
\* warning, and the handler goes on to set success.
SwitchBackFailed(entry) ==
    Outcome(AddWarning(entry, Warn("failed to switch back", << >>)), "success")

\* processRepoPush, from SwitchCreate on (push.go:200-233).
PushTail(G, dir, g, c, o, gen, accept, status, entry, cs, wipPrefix) ==
    LET message == generateCommitMessage(c, gen, accept)
        csg == IF c.aiCommit THEN Append(cs, GeneratorCall(gen)) ELSE cs
        cs0 == IF c.aiCommit /\ gen = "text" /\ c.aiReview
               THEN Append(csg, Prompt("ConfirmMessage", accept)) ELSE csg
        sc == SwitchCreate(g, c.dryRun, o, wipPrefix)
        cs1 == Append(cs0, Mut("SwitchCreate", sc))
    IN  IF ~sc.ok
        THEN Ret(G, dir, sc.git,
                 AddError(Outcome(entry, "error"), "create WIP branch failed"), cs1)
        ELSE
    LET cm == CommitAllowEmpty(sc.git, c.dryRun, o, message)
        cs2 == Append(cs1, Commit(cm, message))
    IN  IF ~cm.ok
        THEN Ret(G, dir, cm.git, AddError(Outcome(entry, "error"), "commit failed"),
                 cs2)
        ELSE
    LET pu == PushUpstream(cm.git, c.dryRun, o, wipPrefix)
        cs3 == Append(cs2, Mut("PushUpstream", pu))
    IN  IF ~pu.ok
        THEN Ret(G, dir, pu.git,
                 AddError(Outcome(entry, "error"), "push WIP branch failed"), cs3)
        ELSE
    LET rh == RemoteHasBranch(pu.git, o, status.Branch)
        cs4 == Append(cs3, Query("RemoteHasBranch", ~rh.err))
    IN  IF rh.err \/ ~rh.has
        THEN Ret(G, dir, pu.git, Outcome(entry, "success"), cs4)
        ELSE
    LET sw == Switch(pu.git, c.dryRun, o, status.Branch)
        cs5 == Append(cs4, Mut("Switch", sw))
    IN  IF ~sw.ok
        THEN Ret(G, dir, sw.git, SwitchBackFailed(entry), cs5)
        ELSE
    LET ps == Push(sw.git, c.dryRun, o, status.Branch)
        cs6 == Append(cs5, Mut("Push", ps))
    IN  IF ~ps.ok
        THEN Ret(G, dir, ps.git,
                 Outcome(AddWarning(entry, Warn("failed to push current branch",
                                                << >>)), "success"), cs6)
        ELSE Ret(G, dir, ps.git, Outcome(entry, "success"), cs6)

\* processRepoPush (push.go:135-234). confirm and accept are the user's answers
\* to the staging prompt and to the message prompt, should the handler ask.
processRepoPush(G, repo, c, o, confirm, gen, accept) ==
    LET dir == repo.Path
        g0 == At(G, dir)
        wipPrefix == WipName(c.now)
        entry0 == CreateEntry(repo.Name, << << >>, wipPrefix>>, "")
        pre == Preconditions(g0, o)
        cs1 == <<Query("Preconditions", pre.ok)>>
    IN  IF ~pre.ok
        THEN Ret(G, dir, g0,
                 AddWarning(Outcome(entry0, "skipped"), Warn(pre.reason, << >>)), cs1)
        ELSE
    LET f == Fetch(g0, c.dryRun, o)
        cs2 == Append(cs1, Mut("Fetch", f))
    IN  IF ~f.ok
        THEN Ret(G, dir, f.git, AddError(Outcome(entry0, "error"), "fetch failed"), cs2)
        ELSE
    LET status == Status(f.git, o)
        cs3 == Append(cs2, Query("Status", status.Error = ""))
        entry1 == [entry0 EXCEPT !.Details = <<status.Branch, wipPrefix>>]
    IN  IF status.Dirty > 0 \/ status.Untracked > 0
        THEN LET junk == HasJunkFiles(f.git, o)
                 cs4 == Append(cs3, Query("HasJunkFiles", ~junk.err))
             IN  IF junk.err
                 THEN Ret(G, dir, f.git,
                          AddError(Outcome(entry1, "error"), "junk check failed"), cs4)
                 ELSE IF junk.has
                 THEN Ret(G, dir, f.git,
                          AddWarning(Outcome(entry1, "skipped"),
                                     Warn("untracked junk files found", junk.files)),
                          cs4)
                 ELSE
             LET decision == StageDecision(c, confirm)
                 csp == IF ~c.autoAdd /\ c.K = 1
                        THEN Append(cs4, Prompt("ConfirmAdd", confirm)) ELSE cs4
             IN  IF decision = "declined"
                 THEN Ret(G, dir, f.git,
                          AddWarning(Outcome(entry1, "skipped"),
                                     Warn("user declined to add changes", << >>)),
                          csp)
                 ELSE IF decision = "disallowed"
                 THEN Ret(G, dir, f.git,
                          AddWarning(Outcome(entry1, "skipped"),
                                     Warn("changes present but auto-add not enabled",
                                          << >>)),
                          csp)
                 ELSE LET add == AddAll(f.git, c.dryRun, o)
                          cs5 == Append(csp, Mut("AddAll", add))
                      IN  IF ~add.ok
                          THEN Ret(G, dir, add.git,
                                   AddError(Outcome(entry1, "error"),
                                            "add all failed"), cs5)
                          ELSE PushTail(G, dir, add.git, c, o, gen, accept, status,
                                        entry1, cs5, wipPrefix)
        ELSE PushTail(G, dir, f.git, c, o, gen, accept, status, entry1, cs3,
                      wipPrefix)

\* createTrackingBranch: SwitchCreate again; the upstream is only
\* logged, never set.
createTrackingBranch(g, dry, o, localBranch) == SwitchCreate(g, dry, o, localBranch)

\* The steps after the lookup as they would be were the stash popped with no
\* stash made and no branch switched to.
PullTailPopOnly(G, dir, g, c, o, entry, cs, wipBranchName) ==
    LET pop == StashPop(g, c.dryRun, o)
    IN  Ret(G, dir, pop.git, Outcome(entry, "success"),
            Append(cs, Mut("StashPop", pop)))

\* processRepoPull, from the stash on.
PullTail(G, dir, g, c, o, entry, cs, wipBranchName) ==
    LET st == Stash(g, c.dryRun, o)
        cs1 == Append(cs, Mut("Stash", st))
        sc == SwitchCreate(st.git, c.dryRun, o, wipBranchName)
        cs2 == Append(cs1, Mut("SwitchCreate", sc))
    IN  IF ~sc.ok
        THEN Ret(G, dir, sc.git,
                 AddError(Outcome(entry, "error"), "switch to WIP branch failed"), cs2)
        ELSE
    LET sw == Switch(sc.git, c.dryRun, o, wipBranchName)
        cs3 == Append(cs2, Mut("Switch", sw))
        ct == IF sw.ok THEN sw ELSE createTrackingBranch(sw.git, c.dryRun, o,
                                                       wipBranchName)
        cs4 == IF sw.ok THEN cs3 ELSE Append(cs3, Mut("SwitchCreate", ct))
    IN  IF ~ct.ok
        THEN Ret(G, dir, ct.git,
                 AddError(Outcome(entry, "error"), "create tracking branch failed"),
                 cs4)
        ELSE
    LET pop == StashPop(ct.git, c.dryRun, o)
        cs5 == Append(cs4, Mut("StashPop", pop))
        hc == HasConflicts(pop.git, o)
        cs6 == Append(cs5, Query("HasConflicts", ~hc.err))
        entry1 == IF hc.err
                  THEN AddWarning(entry, Warn("conflict detection failed", << >>))
                  ELSE entry
    IN  IF hc.has
        THEN Ret(G, dir, pop.git,
                 AddWarning(Outcome(entry1, "conflicts"),
                            Warn("conflicts in files", hc.files)), cs6)
        ELSE Ret(G, dir, pop.git, Outcome(entry1, "success"), cs6)

\* LatestRemoteWIP as it would be were the date of each line parsed: the
\* tracking ref under refs/remotes/origin/wip/ with the latest committer date.
LatestRemoteWIPParsed(g, o) ==
    LET tracked == {b \in Branches : IsWip(b) /\ g.track[b] > 0}
        latest == {b \in tracked :
                     \A b2 \in tracked : Instant(g.track[b]) >= Instant(g.track[b2])}
    IN  IF ~RunsOk(g, o, "forEachRef") \/ tracked = {}
        THEN [ref |-> << >>, err |-> TRUE]
        ELSE [ref |-> RefOf(CHOOSE b \in latest : TRUE), err |-> FALSE]

\* processRepoPull (part_007:93-172); parsed tells which lookup of the latest
\* remote WIP ref is made.
processRepoPullWith(G, repo, c, o, parsed) ==
    LET dir == repo.Path
        g0 == At(G, dir)
        entry0 == CreateEntry(repo.Name, << >>, "")
        pre == Preconditions(g0, o)
        cs1 == <<Query("Preconditions", pre.ok)>>
    IN  IF ~pre.ok
        THEN Ret(G, dir, g0,
                 AddWarning(Outcome(entry0, "skipped"), Warn(pre.reason, << >>)), cs1)
        ELSE
    LET status == Status(g0, o)
        cs2 == Append(cs1, Query("Status", status.Error = ""))
        originalBranch == status.Branch
        f == Fetch(g0, c.dryRun, o)
        cs3 == Append(cs2, Mut("Fetch", f))
    IN  IF ~f.ok
        THEN Ret(G, dir, f.git, AddError(Outcome(entry0, "error"), "fetch failed"), cs3)
        ELSE
    LET latestWipRemote == IF parsed THEN LatestRemoteWIPParsed(f.git, o)
                           ELSE LatestRemoteWIP(f.git, o)
        cs4 == Append(cs3, Query("LatestRemoteWIP", RunsOk(f.git, o, "forEachRef")))
    IN  IF latestWipRemote.err
        THEN Ret(G, dir, f.git,
                 AddWarning(Outcome(entry0, "no-wip"),
                            Warn("no WIP branches found on origin", << >>)), cs4)
        ELSE
    LET wipBranchName == TrimOrigin(latestWipRemote.ref)
        entry1 == [entry0 EXCEPT !.Details = <<originalBranch, wipBranchName>>]
    IN  PullTail(G, dir, f.git, c, o, entry1, cs4, wipBranchName)

\* processRepoPull
processRepoPull(G, repo, c, o) == processRepoPullWith(G, repo, c, o, FALSE)

\* getRepoName: the last segment of the path; the workspace's own directory
\* name when the path is the current directory.
getRepoName(repoPath) ==
    LET name == Base(repoPath)
    IN  IF name = "." THEN "workspace" ELSE IF name = "" THEN "root" ELSE name

CreateCheckpointEntry(repo, branch, outcome) ==
    [Repo |-> repo, Outcome |-> outcome, Details |-> <<branch>>,
     Warnings |-> << >>, Errors |-> << >>,
     FilesModified |-> 0, FilesAdded |-> 0, LinesAdded |-> 0, LinesRemoved |-> 0,
     WipBranch |-> << >>]

\* generateEnhancedCheckpointCommitMessage, and the fallback message when it
\* returns an error (part_009:237-243); what the generator returns without an
\* error is the message, the empty string included.
checkpointMessage(gen) ==
    IF gen = "err" THEN "fallback" ELSE IF gen = "empty" THEN "" ELSE "generated"

\* processEnhancedCheckpointRepo, from the commit on.
CheckpointTail(G, dir, g, c, o, gen, status, entry, cs) ==
    LET cm == CommitAllowEmpty(g, c.dryRun, o, checkpointMessage(gen))
        cs1 == Append(Append(cs, GeneratorCall(gen)),
                      Commit(cm, checkpointMessage(gen)))
    IN  IF ~cm.ok
        THEN Ret(G, dir, cm.git, AddError(Outcome(entry, "failed"), "git commit failed"),
                 cs1)
        ELSE
    LET wipBranch == WipName(c.now)
        entry1 == [entry EXCEPT !.WipBranch = wipBranch]
        sc == SwitchCreate(cm.git, c.dryRun, o, wipBranch)
        cs2 == Append(cs1, Mut("SwitchCreate", sc))
    IN  IF ~sc.ok
        THEN Ret(G, dir, sc.git,
                 AddError(Outcome(entry1, "failed"), "git switch failed"), cs2)
        ELSE
    LET pu == PushUpstream(sc.git, c.dryRun, o, wipBranch)
        cs3 == Append(cs2, Mut("PushUpstream", pu))
    IN  IF ~pu.ok
        THEN Ret(G, dir, pu.git, AddError(Outcome(entry1, "failed"), "git push failed"),
                 cs3)
        ELSE
    LET sw == Switch(pu.git, c.dryRun, o, status.Branch)
        cs4 == Append(cs3, Mut("Switch", sw))
        entry2 == IF sw.ok THEN entry1
                  ELSE AddWarning(entry1, Warn("Failed to switch back", << >>))
        rh == RemoteHasBranch(sw.git, o, status.Branch)
        cs5 == Append(cs4, Query("RemoteHasBranch", ~rh.err))
    IN  IF rh.err \/ ~rh.has
        THEN Ret(G, dir, sw.git, Outcome(entry2, "success"), cs5)
        ELSE
    LET ps == Push(sw.git, c.dryRun, o, status.Branch)
        cs6 == Append(cs5, Mut("Push", ps))
        entry3 == IF ps.ok THEN entry2
                  ELSE AddWarning(entry2, Warn("Failed to push original branch", << >>))
    IN  Ret(G, dir, ps.git, Outcome(entry3, "success"), cs6)

\* processEnhancedCheckpointRepo: repoPath is what runCheckpoint passes, the
\* key of the status map; every Executor call runs in that directory.
processEnhancedCheckpointRepo(G, repoPath, c, o, gen, status) ==
    LET dir == repoPath
        g0 == At(G, dir)
        entry0 == CreateCheckpointEntry(Base(repoPath), status.Branch, "processing")
    IN  IF ~status.HasOrigin
        THEN Ret(G, dir, g0,
                 AddWarning(Outcome(entry0, "skipped"),
                            Warn("Repository has no origin remote", << >>)), << >>)
        ELSE IF status.InProgress
        THEN Ret(G, dir, g0,
                 AddWarning(Outcome(entry0, "skipped"),
                            Warn("Repository has ongoing rebase/merge", << >>)), << >>)
        ELSE
    LET entry1 == [entry0 EXCEPT !.FilesModified = status.Dirty,
                                 !.FilesAdded = status.Untracked]
        cs1 == <<Query("DiffNameStatusCached", RunsOk(g0, o, "diffCached")),
                 Query("LogNSubjects", RunsOk(g0, o, "log"))>>
    IN  IF status.Dirty > 0 \/ status.Untracked > 0
        THEN LET add == AddAll(g0, c.dryRun, o)
                 cs2 == Append(cs1, Mut("AddAll", add))
             IN  IF ~add.ok
                 THEN Ret(G, dir, add.git,
                          AddError(Outcome(entry1, "failed"), "git add failed"), cs2)
                 ELSE CheckpointTail(G, dir, add.git, c, o, gen, status, entry1, cs2)
        ELSE CheckpointTail(G, dir, g0, c, o, gen, status, entry1, cs1)

\* filterCheckpointCandidates: the keys of the status map to process.
filterCheckpointCandidates(res) ==
    { k \in DOMAIN res :
        /\ res[k].Error = ""
        /\ (res[k].Dirty > 0 \/ res[k].Untracked > 0 \/ res[k].Commits > 0) }

-----------------------------------------------------------------------------
(* The fan-out: runPush, runPull, Collector.CollectStatus,                 *)
(* WorkspaceProcessor.processConcurrently, and runCheckpoint               *)

Units == 1..Len(repos)

\* The call sites whose subprocess may fail, per handler.
PushSites ==
    {"getUrl", "progressTest", "fetch", "getBranch", "getDirty", "getUntracked",
     "junkList", "add", "switchCreate", "commit", "pushUpstream", "lsRemote",
     "switch", "push"}

PullSites ==
    {"getUrl", "progressTest", "fetch", "getBranch", "getDirty", "getUntracked",
     "forEachRef", "stash", "switchCreate", "switch", "stashPop", "diffU"}

StatusSites ==
    {"getUrl", "progressTest", "getBranch", "getDirty", "getUntracked"}

CheckpointSites ==
    {"add", "commit", "switchCreate", "pushUpstream", "switch", "lsRemote", "push"}

\* Under a cancelled context exec.CommandContext starts no subprocess, or
\* kills the one it started: every call site fails.
Oracles(sites) ==
    IF cancelled # << >> THEN {sites}
    ELSE {o \in SUBSET sites :
            Cardinality(o) <= IF Len(repos) > 1 THEN MaxFanFailures ELSE MaxFailures}

GenResults == {"err", "empty", "text"}

\* The generator is consulted only with --ai-commit, the user only without
\* --auto-add and with a concurrency limit of 1.
Generated == IF cfg.aiCommit THEN GenResults ELSE {"err"}

Answers == IF ~cfg.autoAdd /\ cfg.K = 1 THEN BOOLEAN ELSE {FALSE}

\* The user is shown a generated message only with --ai-commit and --ai-review.
Acceptances == IF cfg.aiCommit /\ cfg.aiReview THEN BOOLEAN ELSE {TRUE}

Running == mainpc \notin {"off", "crashed", "done", "failed"}

\* The caller cancels ctx, the context every Executor call is made under.
Cancel ==
    /\ Running
    /\ cancelled = << >>
    /\ cancelled' = <<{u \in Units : upc[u] = "acquired"}>>
    /\ UNCHANGED <<op, cfg, repos, git, git0, upc, local, calls, sem, mu, wg,
                   report, results, mainpc, next, cand, cpcalls, saved>>
    /\ UNCHANGED <<dvars, reportDir, totals>>

\* for _, repo := range repos { wg.Add(1); go func(repo) {...}(repo) }
Spawn ==
    /\ mainpc = "loop"
    /\ next <= Len(repos)
    /\ wg' = wg + 1
    /\ upc' = [upc EXCEPT ![next] = "spawned"]
    /\ next' = next + 1
    /\ mainpc' = IF next = Len(repos) THEN "wait" ELSE "loop"
    /\ UNCHANGED <<op, cfg, repos, git, git0, local, calls, sem, mu, report,
                   results, cand, saved, cpcalls>>
    /\ UNCHANGED <<dvars, cancelled, reportDir, totals>>

\* Acquire as it would be were the channel's buffer unbounded.
AcquireUnbounded(u) ==
    /\ Running
    /\ upc[u] = "spawned"
    /\ sem' = sem + 1
    /\ upc' = [upc EXCEPT ![u] = "acquired"]
    /\ UNCHANGED <<op, cfg, repos, git, git0, local, calls, mu, wg, report,
                   results, mainpc, next, cand, cpcalls, saved>>
    /\ UNCHANGED <<dvars, cancelled, reportDir, totals>>

\* semaphore <- struct{}{}: blocks while the channel's buffer is full.
Acquire(u) ==
    /\ Running
    /\ upc[u] = "spawned"
    /\ sem < cfg.K
    /\ sem' = sem + 1
    /\ upc' = [upc EXCEPT ![u] = "acquired"]
    /\ UNCHANGED <<op, cfg, repos, git, git0, local, calls, mu, wg, report,
                   results, mainpc, next, cand, cpcalls, saved>>
    /\ UNCHANGED <<dvars, cancelled, reportDir, totals>>

\* What a handler invocation that returned leaves behind.
Handled(u, r) ==
    /\ git' = r.G
    /\ local' = [local EXCEPT ![u] = r.entry]
    /\ calls' = [calls EXCEPT ![u] = r.calls]
    /\ upc' = [upc EXCEPT ![u] = "handled"]
    /\ UNCHANGED <<op, cfg, repos, git0, sem, mu, wg, report, results, mainpc,
                   next, cand, saved, cpcalls>>
    /\ UNCHANGED <<dvars, cancelled, reportDir, totals>>

\* entry := processRepoPush(ctx, repo, generator, wipPrefix)
HandlePush(u) ==
    /\ Running
    /\ op = "push"
    /\ upc[u] = "acquired"
    /\ \E o \in Oracles(PushSites), confirm \in Answers, gen \in Generated,
          accept \in Acceptances :
         Handled(u, processRepoPush(git, repos[u], cfg, o, confirm, gen, accept))

\* entry := processRepoPull(ctx, repo)
HandlePull(u) ==
    /\ Running
    /\ op = "pull"
    /\ upc[u] = "acquired"
    /\ \E o \in Oracles(PullSites) :
         Handled(u, processRepoPull(git, repos[u], cfg, o))

\* processRepoPull with the latest remote WIP ref found.
HandlePullParsed(u) ==
    /\ Running
    /\ op = "pullParsed"
    /\ upc[u] = "acquired"
    /\ \E o \in Oracles(PullSites) :
         Handled(u, processRepoPullWith(git, repos[u], cfg, o, TRUE))

\* status, err := gitexec.Status(ctx, repo.Path)
HandleStatus(u) ==
    /\ Running
    /\ op \in {"status", "checkpoint", "review"}
    /\ upc[u] = "acquired"
    /\ \E o \in Oracles(StatusSites) :
         LET status == Status(At(git, repos[u].Path), o)
         IN  Handled(u, [G |-> git, entry |-> status,
                         calls |-> <<Query("Status", status.Error = "")>>])

\* entry := handler.ProcessRepo(ctx, repo), for whatever RepoHandler the caller
\* passes: it returns some entry.
HandleGeneric(u) ==
    /\ Running
    /\ op = "generic"
    /\ upc[u] = "acquired"
    /\ \E tag \in {"success", "error", "skipped"} :
         Handled(u, [G |-> git, entry |-> CreateEntry(repos[u].Name, << >>, tag),
                     calls |-> << >>])

\* handler.ProcessRepo panics: nothing in the goroutine recovers, so the
\* panic ends the process.
HandlePanic(u) ==
    /\ Running
    /\ op = "generic"
    /\ upc[u] = "acquired"
    /\ mainpc' = "crashed"
    /\ UNCHANGED <<op, cfg, repos, git, git0, upc, local, calls, sem, mu, wg,
                   report, results, next, cand, saved, cpcalls>>
    /\ UNCHANGED <<dvars, cancelled, reportDir, totals>>

\* if handler.RequiresReport() && p.report != nil: the fan-outs of push, pull
\* and status always collect.
Collects == op # "generic" \/ cfg.reqReport

\* Lock as it would be were the mutex not to exclude.
LockUnguarded(u) ==
    /\ Running
    /\ upc[u] = "handled"
    /\ Collects
    /\ mu' = u
    /\ upc' = [upc EXCEPT ![u] = "locked"]
    /\ UNCHANGED <<op, cfg, repos, git, git0, local, calls, sem, wg, report,
                   results, mainpc, next, cand, cpcalls, saved>>
    /\ UNCHANGED <<dvars, cancelled, reportDir, totals>>

\* mu.Lock()
Lock(u) ==
    /\ Running
    /\ upc[u] = "handled"
    /\ Collects
    /\ mu = 0
    /\ mu' = u
    /\ upc' = [upc EXCEPT ![u] = "locked"]
    /\ UNCHANGED <<op, cfg, repos, git, git0, local, calls, sem, wg, report,
                   results, mainpc, next, cand, cpcalls, saved>>
    /\ UNCHANGED <<dvars, cancelled, reportDir, totals>>

\* The handler's result is not collected.
SkipCollect(u) ==
    /\ Running
    /\ upc[u] = "handled"
    /\ ~Collects
    /\ upc' = [upc EXCEPT ![u] = "unlocked"]
    /\ UNCHANGED <<op, cfg, repos, git, git0, local, calls, sem, mu, wg, report,
                   results, mainpc, next, cand, cpcalls, saved>>
    /\ UNCHANGED <<dvars, cancelled, reportDir, totals>>

\* AddEntry as it would be were failed repositories left out of the report.
AddEntryUnlessFailed(rep, entry) ==
    IF entry.Outcome \in {"error", "failed"} THEN rep ELSE Append(rep, entry)

\* Report.AddEntry
AddEntry(rep, entry) == Append(rep, entry)

\* rep.AddEntry(entry), or results[repo.Name] = status
Collect(u) ==
    /\ Running
    /\ upc[u] = "locked"
    /\ IF op \in {"status", "checkpoint", "review"}
       THEN /\ results' = (repos[u].Name :> local[u]) @@ results
            /\ UNCHANGED report
       ELSE /\ report' = AddEntry(report, local[u])
            /\ UNCHANGED results
    /\ upc' = [upc EXCEPT ![u] = "added"]
    /\ UNCHANGED <<op, cfg, repos, git, git0, local, calls, sem, mu, wg,
                   mainpc, next, cand, saved, cpcalls>>
    /\ UNCHANGED <<dvars, cancelled, reportDir, totals>>

\* mu.Unlock()
Unlock(u) ==
    /\ Running
    /\ upc[u] = "added"
    /\ mu' = 0
    /\ upc' = [upc EXCEPT ![u] = "unlocked"]
    /\ UNCHANGED <<op, cfg, repos, git, git0, local, calls, sem, wg, report,
                   results, mainpc, next, cand, cpcalls, saved>>
    /\ UNCHANGED <<dvars, cancelled, reportDir, totals>>

\* Release as it would be were the slot kept after the handler.
ReleaseKeepsSlot(u) ==
    /\ Running
    /\ upc[u] = "unlocked"
    /\ upc' = [upc EXCEPT ![u] = "released"]
    /\ UNCHANGED <<op, cfg, repos, git, git0, local, calls, sem, mu, wg, report,
                   results, mainpc, next, cand, cpcalls, saved>>
    /\ UNCHANGED <<dvars, cancelled, reportDir, totals>>

\* defer func() { <-semaphore }()
Release(u) ==
    /\ Running
    /\ upc[u] = "unlocked"
    /\ sem' = sem - 1
    /\ upc' = [upc EXCEPT ![u] = "released"]
    /\ UNCHANGED <<op, cfg, repos, git, git0, local, calls, mu, wg, report,
                   results, mainpc, next, cand, cpcalls, saved>>
    /\ UNCHANGED <<dvars, cancelled, reportDir, totals>>

\* defer wg.Done()
Done(u) ==
    /\ Running
    /\ upc[u] = "released"
    /\ wg' = wg - 1
    /\ upc' = [upc EXCEPT ![u] = "done"]
    /\ UNCHANGED <<op, cfg, repos, git, git0, local, calls, sem, mu, report,
                   results, mainpc, next, cand, cpcalls, saved>>
    /\ UNCHANGED <<dvars, cancelled, reportDir, totals>>

\* The coordinator as it would go on were it not to wait for the handlers.
WaitSkipped ==
    /\ mainpc = "wait"
    /\ mainpc' = IF op = "status" THEN "done"
                 ELSE IF op = "checkpoint" THEN "filter"
                 ELSE IF op = "review" THEN "brief"
                 ELSE IF Collects THEN "save" ELSE "done"
    /\ UNCHANGED <<op, cfg, repos, git, git0, upc, local, calls, sem, mu, wg,
                   report, results, next, cand, saved, cpcalls>>
    /\ UNCHANGED <<dvars, cancelled, reportDir, totals>>

\* wg.Wait() returns.
Wait ==
    /\ mainpc = "wait"
    /\ wg = 0
    /\ mainpc' = IF op = "status" THEN "done"
                 ELSE IF op = "checkpoint" THEN "filter"
                 ELSE IF op = "review" THEN "brief"
                 ELSE IF Collects THEN "save" ELSE "done"
    /\ UNCHANGED <<op, cfg, repos, git, git0, upc, local, calls, sem, mu, wg,
                   report, results, next, cand, saved, cpcalls>>
    /\ UNCHANGED <<dvars, cancelled, reportDir, totals>>

\* fmt.Sprintf("wip-%s-%s.md", r.operation, r.Timestamp.Format("20060102-150405")):
\* the timestamp is the second in which NewReport ran.
ReportFile(operation, t) == <<"wip", operation, TsToks[t]>>

\* Report.Save and CheckpointReport.Save: os.WriteFile creates the file or
\* truncates the one of that name.
WriteReport(fs, operation, t, entries) ==
    (ReportFile(operation, t) :> [Timestamp |-> t, Entries |-> entries])
    @@ [n \in DOMAIN fs \ {ReportFile(operation, t)} |-> fs[n]]

\* rep.Save(): a failure is only warned about.
Save ==
    /\ mainpc = "save"
    /\ \E ok \in BOOLEAN :
         /\ saved' = Append(saved, ok)
         /\ reportDir' = IF ok THEN WriteReport(reportDir, op, cfg.now, report) ELSE reportDir
    /\ mainpc' = "done"
    /\ UNCHANGED <<op, cfg, repos, git, git0, upc, local, calls, sem, mu, wg,
                   report, results, next, cand, cpcalls>>
    /\ UNCHANGED <<dvars, cancelled, totals>>

\* reviewWorkspaceContext after CollectStatus: briefing, err :=
\* generator.WorkspaceContext(ctx, workspaceInput); if err != nil { return err }.
\* An empty briefing is printed as it is.
Briefing ==
    /\ mainpc = "brief"
    /\ \E gen \in GenResults : mainpc' = IF gen = "err" THEN "failed" ELSE "done"
    /\ UNCHANGED <<op, cfg, repos, git, git0, upc, local, calls, sem, mu, wg,
                   report, results, next, cand, saved, cpcalls>>
    /\ UNCHANGED <<dvars, cancelled, reportDir, totals>>

\* checkpointRepos := filterCheckpointCandidates(results)
Filter ==
    /\ mainpc = "filter"
    /\ cand' = filterCheckpointCandidates(results)
    /\ mainpc' = IF cand' = {} THEN "done" ELSE "cploop"
    /\ UNCHANGED <<op, cfg, repos, git, git0, upc, local, calls, sem, mu, wg,
                   report, results, next, saved, cpcalls>>
    /\ UNCHANGED <<dvars, cancelled, reportDir, totals>>

\* for _, repoPath := range checkpointRepos: the directory runCheckpoint
\* passes to the handler is the key of the status map, taken as a path.
CheckpointDir(k) == <<k>>

\* AddCheckpointEntry as it would be were the files and lines of every entry
\* added to the totals.
AddCheckpointEntryAll(t, entry) ==
    [t EXCEPT !.ProcessedRepos = @ + 1,
              !.SuccessfulRepos = IF entry.Outcome = "success" THEN @ + 1 ELSE @,
              !.FailedRepos = IF entry.Outcome = "failed" THEN @ + 1 ELSE @,
              !.SkippedRepos = IF entry.Outcome = "skipped" THEN @ + 1 ELSE @,
              !.TotalFiles = @ + entry.FilesModified + entry.FilesAdded,
              !.TotalLines = @ + entry.LinesAdded + entry.LinesRemoved]

\* CheckpointReport.AddCheckpointEntry (checkpoint.go:54-69): the counters; the
\* entry itself is appended to the entries.
AddCheckpointEntry(t, entry) ==
    LET t1 == [t EXCEPT !.ProcessedRepos = @ + 1]
    IN  IF entry.Outcome = "success"
        THEN [t1 EXCEPT !.SuccessfulRepos = @ + 1,
                        !.TotalFiles = @ + entry.FilesModified + entry.FilesAdded,
                        !.TotalLines = @ + entry.LinesAdded + entry.LinesRemoved]
        ELSE IF entry.Outcome = "failed" THEN [t1 EXCEPT !.FailedRepos = @ + 1]
        ELSE IF entry.Outcome = "skipped" THEN [t1 EXCEPT !.SkippedRepos = @ + 1]
        ELSE t1

\* One turn of runCheckpoint's loop over checkpointRepos.
CheckpointRepo ==
    /\ mainpc = "cploop"
    /\ \E k \in cand, o \in Oracles(CheckpointSites), gen \in GenResults :
         LET r == processEnhancedCheckpointRepo(git, CheckpointDir(k), cfg, o, gen,
                                                results[k])
         IN  /\ git' = r.G
             /\ report' = AddEntry(report, r.entry)
             /\ totals' = AddCheckpointEntry(totals, r.entry)
             /\ cpcalls' = (k :> r.calls) @@ cpcalls
             /\ cand' = cand \ {k}
             /\ mainpc' = IF cand' = {} THEN "summary" ELSE "cploop"
    /\ UNCHANGED <<op, cfg, repos, git0, upc, local, calls, sem, mu, wg, results,
                   next, saved>>
    /\ UNCHANGED <<dvars, cancelled, reportDir>>

\* CheckpointReport.GenerateWorkspaceSummary (checkpoint.go:71-88), called by
\* runCheckpoint after its loop: the parts of the summary, each a count and
\* its text.
GenerateWorkspaceSummary ==
    /\ mainpc = "summary"
    /\ totals' = [totals EXCEPT !.WorkspaceChanges =
            (IF totals.SuccessfulRepos > 0
             THEN <<(<<totals.SuccessfulRepos, "repos checkpointed">>)>> ELSE << >>)
         \o (IF totals.TotalFiles > 0
             THEN <<(<<totals.TotalFiles, "files changed">>)>> ELSE << >>)
         \o (IF totals.TotalLines > 0
             THEN <<(<<totals.TotalLines, "lines modified">>)>> ELSE << >>)
         \o (IF totals.FailedRepos > 0
             THEN <<(<<totals.FailedRepos, "failures">>)>> ELSE << >>)]
    /\ mainpc' = "save"
    /\ UNCHANGED <<op, cfg, repos, git, git0, upc, local, calls, sem, mu, wg,
                   report, results, next, cand, cpcalls, saved>>
    /\ UNCHANGED <<dvars, cancelled, reportDir>>

Next ==
    \/ Spawn
    \/ \E u \in Units : Acquire(u)
    \/ \E u \in Units : HandlePush(u)
    \/ \E u \in Units : HandlePull(u)
    \/ \E u \in Units : HandleStatus(u)
    \/ \E u \in Units : HandleGeneric(u)
    \/ \E u \in Units : HandlePanic(u)
    \/ \E u \in Units : Lock(u)
    \/ \E u \in Units : SkipCollect(u)
    \/ \E u \in Units : Collect(u)
    \/ \E u \in Units : Unlock(u)
    \/ \E u \in Units : Release(u)
    \/ \E u \in Units : Done(u)
    \/ Wait
    \/ Save
    \/ Briefing
    \/ Filter
    \/ CheckpointRepo
    \/ GenerateWorkspaceSummary
    \/ Cancel

-----------------------------------------------------------------------------
(* Initial states: the workspace a run finds *)

\* A repository on branch main with one commit.
BaseGit ==
    [NoGit EXCEPT !.exists = TRUE, !.hasOrigin = TRUE, !.branch = MainBranch,
                  !.heads = [b \in Branches |-> IF b = MainBranch THEN 1 ELSE 0]]

\* origin and in-progress state, as Preconditions reads them.
PreProfiles == {<<TRUE, FALSE>>, <<FALSE, FALSE>>, <<TRUE, TRUE>>}

WithPre(g, pre) == [g EXCEPT !.hasOrigin = pre[1], !.inProgress = pre[2]]

\* The WIP refs on origin: the stamp of wip/h/1 and of wip/h/2 (0: no ref).
RemoteProfiles == {<<0, 0>>, <<1, 0>>, <<1, 2>>, <<2, 1>>}

WithRemote(g, rp, fetched) ==
    LET refs == [b \in Branches |->
                   IF b = WipName(1) THEN rp[1]
                   ELSE IF b = WipName(2) THEN rp[2] ELSE 0]
    IN  [g EXCEPT !.remote = refs,
                  !.track = IF fetched THEN refs ELSE @,
                  !.origin = [b \in Branches |->
                                IF refs[b] > 0 THEN 2 ELSE g.origin[b]]]

\* A stash entry made earlier, on another commit.
OldStash ==
    [modified |-> {TrackedPath}, staged |-> {}, untracked |-> {}, base |-> 0]

\* A repository in which the branch of this run's WIP prefix exists already,
\* left by an earlier run with the same prefix, at a commit of its own.
ReusedPrefixGits ==
    { [BaseGit EXCEPT !.heads[WipName(1)] = 2, !.origin[WipName(1)] = og,
                      !.modified = m] :
        m \in SUBSET {TrackedPath}, og \in {0, 2} }

PushGits ==
    { [WithPre(BaseGit, pre) EXCEPT !.modified = m, !.untracked = u,
                                    !.origin[MainBranch] = om] :
        pre \in PreProfiles, m \in SUBSET {TrackedPath},
        u \in SUBSET {PlainPath, JunkPath}, om \in {0, 1} }
    \cup ReusedPrefixGits

\* A stash entry made earlier, on the commit that is checked out.
OwnStash ==
    [modified |-> {TrackedPath}, staged |-> {}, untracked |-> {}, base |-> 1]

PullGits ==
    { [WithRemote(WithPre(BaseGit, pre), rp, fetched)
         EXCEPT !.modified = m, !.untracked = u, !.stash = st] :
        pre \in PreProfiles, rp \in RemoteProfiles, fetched \in BOOLEAN,
        m \in SUBSET {TrackedPath}, u \in SUBSET {PlainPath},
        st \in {<< >>, <<OldStash>>, <<OwnStash>>} }

PathNames == <<"x", "y", "z", "w">>

RepoAt(path) == [Path |-> path, Name |-> getRepoName(path)]

Flags(K, dry, autoAdd, ai, req) ==
    [K |-> K, dryRun |-> dry, autoAdd |-> autoAdd, aiCommit |-> ai,
     aiReview |-> FALSE, reqReport |-> req, now |-> 1]

\* runPush as it would be were --ai-review to leave the limit as given.
runPushFlagsAsGiven(c) == c

\* runPush (push.go:77-80): --ai-review sets the concurrency limit to 1
\* before the semaphore is made.
runPushFlags(c) == IF c.aiReview THEN [c EXCEPT !.K = 1] ELSE c

\* The start of a run of command o over the repositories rs, on disk as G.
RunStarts(o, c, rs, G) ==
    /\ op = o
    /\ cfg = c
    /\ repos = rs
    /\ git = G
    /\ git0 = G
    /\ upc = [u \in 1..Len(rs) |-> "idle"]
    /\ local = [u \in 1..Len(rs) |-> << >>]
    /\ calls = [u \in 1..Len(rs) |-> << >>]
    /\ sem = 0
    /\ mu = 0
    /\ wg = 0
    /\ report = << >>
    /\ results = << >>
    /\ mainpc = "loop"
    /\ next = 1
    /\ cand = {}
    /\ cpcalls = << >>
    /\ saved = << >>
    /\ cancelled = << >>
    /\ reportDir = << >>
    /\ totals = NewCheckpointReport
    /\ DiscoverOff

\* Spec: the fan-out over one to MaxRepos repositories.
FanGits == { BaseGit, [BaseGit EXCEPT !.untracked = {PlainPath}],
             [BaseGit EXCEPT !.hasOrigin = FALSE] }

Init ==
    \E o \in {"push", "pull", "status", "checkpoint", "review", "generic"},
       n \in 1..MaxRepos, K \in 1..MaxK, req \in BOOLEAN, g \in FanGits :
        /\ (o # "generic" => req)
        /\ RunStarts(o, Flags(K, FALSE, TRUE, FALSE, req),
                     [i \in 1..n |-> RepoAt(<<PathNames[i]>>)],
                     [q \in {<<PathNames[i]>> : i \in 1..n} |-> g])

Spec == Init /\ [][Next]_vars

\* SpecRepo: every command over one repository, in every state of it.
InitRepo ==
    \E K \in 1..MaxK, dry \in BOOLEAN :
        \/ \E g \in PushGits, autoAdd \in BOOLEAN, ai \in BOOLEAN,
              review \in BOOLEAN :
             RunStarts("push", runPushFlags([Flags(K, dry, autoAdd, ai, TRUE)
                                               EXCEPT !.aiReview = review]),
                       <<RepoAt(<<"x">>)>>, (<<"x">> :> g))
        \/ \E g \in PullGits :
             RunStarts("pull", Flags(K, dry, FALSE, FALSE, TRUE),
                       <<RepoAt(<<"x">>)>>, (<<"x">> :> g))
        \/ \E g \in PushGits, path \in {<<"x">>, <<"a", "x">>},
              o \in {"checkpoint", "status", "review"} :
             RunStarts(o, Flags(K, dry, FALSE, FALSE, TRUE),
                       <<RepoAt(path)>>, (path :> g))
        \/ \E req \in BOOLEAN :
             RunStarts("generic", Flags(K, dry, FALSE, FALSE, req),
                       <<RepoAt(<<"x">>)>>, (<<"x">> :> BaseGit))

SpecRepo == InitRepo /\ [][Next]_vars

\* SpecPull: Pull over one repository from the point of view of the steps that
\* follow the lookup of the latest remote WIP ref, that lookup finding the ref.
InitPull ==
    \E K \in 1..MaxK, dry \in BOOLEAN, g \in PullGits :
        RunStarts("pullParsed", Flags(K, dry, FALSE, FALSE, TRUE),
                  <<RepoAt(<<"x">>)>>, (<<"x">> :> g))

NextPull ==
    \/ Spawn
    \/ \E u \in Units : Acquire(u)
    \/ \E u \in Units : HandlePullParsed(u)
    \/ \E u \in Units : Lock(u)
    \/ \E u \in Units : Collect(u)
    \/ \E u \in Units : Unlock(u)
    \/ \E u \in Units : Release(u)
    \/ \E u \in Units : Done(u)
    \/ Wait
    \/ Save
    \/ Cancel

SpecPull == InitPull /\ [][NextPull]_vars

\* SpecReport: successive runs that save their report in one report directory.
MaxSeconds == 2

\* What the runs have appended by the time they save.
ReportContents ==
    {<< >>, <<CreateEntry("x", << >>, "success")>>,
     <<CreateEntry("x", << >>, "error")>>}

\* The seconds of the reports in the directory.
SavedSeconds == {reportDir[n].Timestamp : n \in DOMAIN reportDir}

InitReport == RunOff /\ DiscoverOff

\* One run of push, pull or checkpoint: NewReport at second t, no earlier than
\* any run before it, the entries, then Save.
ReportRun ==
    /\ \E operation \in {"push", "pull", "checkpoint"}, t \in 1..MaxSeconds,
          entries \in ReportContents, ok \in BOOLEAN :
         /\ \A t0 \in SavedSeconds : t0 <= t
         /\ reportDir' = IF ok THEN WriteReport(reportDir, operation, t, entries) ELSE reportDir
    /\ UNCHANGED <<op, cfg, repos, git, git0, upc, local, calls, sem, mu, wg,
                   report, results, mainpc, next, cand, cpcalls, saved, cancelled,
                   totals>>
    /\ UNCHANGED dvars

SpecReport == InitReport /\ [][ReportRun]_vars

-----------------------------------------------------------------------------
(* Properties *)

\* The units between semaphore acquire and release.
InFlight ==
    {u \in Units : upc[u] \in {"acquired", "handled", "locked", "added", "unlocked"}}

Returned ==
    mainpc \in {"save", "filter", "brief", "cploop", "summary", "done", "failed"}

\* C1: in processConcurrently, the push and pull fan-outs and the Status
\* Collector, at most K handler invocations are between semaphore acquire and
\* release at any instant, and the coordinator gets past wg.Wait() only after
\* every handler invocation has completed.
C1_AtMostK ==
    /\ Cardinality(InFlight) <= cfg.K
    /\ Returned => \A u \in Units : upc[u] = "done"

\* K invocations hold all the slots and another unit is waiting for one.
C1_Witness ==
    /\ Len(repos) > cfg.K
    /\ Cardinality(InFlight) = cfg.K
    /\ \E u \in Units : upc[u] = "spawned"
    /\ \E u \in Units : upc[u] = "handled"

\* The Executor calls made so far, by any handler of the run.
AllCalls ==
    UNION {{calls[u][i] : i \in 1..Len(calls[u])} : u \in Units}
    \cup UNION {{cpcalls[k][i] : i \in 1..Len(cpcalls[k])} : k \in DOMAIN cpcalls}

\* C2: with the dry-run flag set, in any Push, Pull or Checkpoint run every
\* mutating Executor verb starts no git subprocess and returns success, and
\* every repository (branch, index, working tree, stash, remote refs) is as
\* it was before the run.
C2_DryRun ==
    cfg.dryRun =>
        /\ git = git0
        /\ \A c \in AllCalls : c.mut => (~c.ran /\ c.ok)

\* A dry run of Push or Checkpoint that went all the way to the push of the
\* original branch.
C2_Witness ==
    /\ cfg.dryRun
    /\ op \in {"push", "checkpoint"}
    /\ mainpc = "done"
    /\ \E c \in AllCalls : c.verb = "Push"
    /\ \E c \in AllCalls : c.verb = "AddAll"

\* C3: a handler invocation that panics is caught by the coordinator, which
\* records an error entry and runs the other handlers to completion: a panic
\* never ends the run.
C3_PanicCaught == mainpc # "crashed"

\* C4: a Push or Pull run over N repositories ends with a report of exactly N
\* entries, one per repository, whatever outcomes they reach; a Checkpoint
\* run ends with one entry per candidate, a failed candidate included; and no
\* entry changes after it was appended.
C4_ReportComplete ==
    (mainpc \in {"save", "done"} /\ op \in {"push", "pull"}) =>
        /\ Len(report) = Len(repos)
        /\ \A u \in Units : \E i \in 1..Len(report) : report[i] = local[u]

C4_CandidatesReported ==
    (mainpc \in {"save", "done"} /\ op = "checkpoint") =>
        /\ Len(report) = Cardinality(filterCheckpointCandidates(results))
        /\ \A k \in filterCheckpointCandidates(results) :
             \E i \in 1..Len(report) : report[i].Repo = k

C4_AppendOnly ==
    /\ Len(report') >= Len(report)
    /\ \A i \in 1..Len(report) : report'[i] = report[i]

C4_EveryRepoReported ==
    /\ [](C4_ReportComplete /\ C4_CandidatesReported)
    /\ [][C4_AppendOnly]_vars

\* A run of two repositories ended with the first one's entry an error and
\* the second one's not.
C4_Witness ==
    /\ mainpc = "done"
    /\ Len(report) = 2
    /\ \/ op = "push" /\ report[1].Outcome = "error" /\ report[2].Outcome = "success"
       \/ op = "checkpoint" /\ report[1].Outcome = "failed"
                            /\ report[2].Outcome = "success"

\* The directories with a valid .git entry, those inside a .git directory
\* excepted.
InsideGit(p) == \E i \in 1..Len(p) : p[i] = GitName

ValidRepoDirs ==
    {p \in DOMAIN tree \cup {Root} :
        /\ IsDir(tree, p)
        /\ ~InsideGit(p)
        /\ Append(p, GitName) \in DOMAIN tree
        /\ tree[Append(p, GitName)] \in {"dir", "gitfile"}}

\* C5: Discover returns exactly the directories that contain a valid .git
\* entry (a .git directory, or a .git file whose content begins with
\* "gitdir: "), each once, and no path inside a .git directory.
C5_ExactlyValidRepos ==
    (dpc = "returned" /\ ~werr) =>
        /\ {found[i] : i \in 1..Len(found)} = ValidRepoDirs
        /\ Len(found) = Cardinality(ValidRepoDirs)
        /\ \A i \in 1..Len(found) : ~InsideGit(found[i])

\* The repository has an origin remote and no rebase or merge under way.
Eligible(g) == g.exists /\ g.hasOrigin /\ ~g.inProgress

\* The handler of unit u has returned.
HandlerReturned(u) == upc[u] \notin {"idle", "spawned", "acquired"}

\* The repository of unit u as the run found it.
Before(u) == At(git0, repos[u].Path)

\* The WIP branches with a tracking ref under refs/remotes/origin/wip/.
TrackedWip(g) == {b \in Branches : IsWip(b) /\ g.track[b] > 0}

LatestByInstant(g) ==
    {b \in TrackedWip(g) :
        \A b2 \in TrackedWip(g) : Instant(g.track[b]) >= Instant(g.track[b2])}

\* C6: whenever refs exist under refs/remotes/origin/wip/ and git lists them,
\* LatestRemoteWIP, and so Pull, selects the ref whose committer date is the
\* latest instant.
C6_LatestByTimestamp ==
    \A u \in Units :
        (op = "pull" /\ HandlerReturned(u) /\ Len(calls[u]) >= 4
         /\ calls[u][4].ok) =>
            LET g == At(git, repos[u].Path)
                r == LatestRemoteWIP(g, {})
            IN  TrackedWip(g) # {} =>
                    /\ ~r.err
                    /\ TrimOrigin(r.ref) \in LatestByInstant(g)
                    /\ local[u].Outcome # "no-wip"

\* Passes preconditions; no dirty, untracked or unmerged file; nothing ahead.
CleanRepo(g) ==
    /\ Eligible(g)
    /\ g.modified \cup g.staged \cup g.untracked \cup g.unmerged = {}
    /\ getAhead(g) = 0

AllOk(cs) == \A i \in 1..Len(cs) : cs[i].ok

\* C7: Push of a clean repository that passes preconditions ends success,
\* whatever --auto-add and --concurrency are (every git subprocess exiting
\* zero).
C7_CleanPushSucceeds ==
    \A u \in Units :
        (op = "push" /\ HandlerReturned(u) /\ CleanRepo(Before(u))
         /\ AllOk(calls[u])) =>
            local[u].Outcome = "success"

\* Popping the stash of g after a switch leaves unmerged paths: the local
\* files are clean and the top entry was made on another commit.
PopConflicts(g) ==
    /\ g.modified \cup g.staged \cup g.untracked \cup g.unmerged = {}
    /\ g.stash # << >>
    /\ Head(g.stash).base # g.heads[g.branch]
    /\ Head(g.stash).modified # {}

JunkFiles(g) == {f \in g.untracked : JunkMatch(f)}

Verbs(cs) == {cs[i].verb : i \in 1..Len(cs)}

MutatingVerbs(cs) == {cs[i].verb : i \in {j \in 1..Len(cs) : cs[j].mut}}

\* C9: Push of a repository with an untracked junk file (that passes
\* preconditions, whose fetch succeeds and whose untracked files can be
\* listed) ends skipped with the junk paths named in a warning, and invokes
\* neither AddAll nor any later mutating verb.
C9_JunkSkipsPush ==
    \A u \in Units :
        (op = "push" /\ HandlerReturned(u) /\ JunkFiles(Before(u)) # {}
         /\ Eligible(Before(u))
         /\ \A i \in 1..Len(calls[u]) :
              calls[u][i].verb \in {"Preconditions", "Fetch", "HasJunkFiles"}
                  => calls[u][i].ok) =>
            /\ local[u].Outcome = "skipped"
            /\ \E i \in 1..Len(local[u].Warnings) :
                 {local[u].Warnings[i].files[j] :
                    j \in 1..Len(local[u].Warnings[i].files)} = JunkFiles(Before(u))
            /\ MutatingVerbs(calls[u]) \subseteq {"Fetch"}

\* C10: neither Push nor Checkpoint invokes AddAll for a repository that has
\* an untracked file matching the junk denylist.
C10_NoAddAllWithJunk ==
    /\ \A u \in Units :
         (op = "push" /\ JunkFiles(Before(u)) # {}) =>
            "AddAll" \notin Verbs(calls[u])
    /\ \A k \in DOMAIN cpcalls :
         JunkFiles(At(git0, <<k>>)) # {} => "AddAll" \notin Verbs(cpcalls[k])

\* The closed set of outcomes of a report entry.
OutcomeSet == {"success", "skipped", "error", "conflicts", "no-wip"}

\* C11: every entry appended to the report of a Push, Pull or Checkpoint run
\* carries an outcome of the closed set {success, skipped, error, conflicts,
\* no-wip}, never an empty one or another tag.
C11_ClosedOutcomes ==
    op \in {"push", "pull", "checkpoint"} =>
        \A i \in 1..Len(report) : report[i].Outcome \in OutcomeSet

\* The position in the call log of unit u of a Status call that set Error.
FailedStatusAt(u) ==
    {i \in 1..Len(calls[u]) : calls[u][i].verb = "Status" /\ ~calls[u][i].ok}

\* C12: a repository whose RepoStatus has Error set is ended by Push and Pull
\* with outcome error and without any mutating verb after the status query,
\* and is never a candidate of Checkpoint.
C12_StatusErrorHonoured ==
    /\ \A u \in Units :
         (op \in {"push", "pull"} /\ HandlerReturned(u)) =>
            \A i \in FailedStatusAt(u) :
                /\ local[u].Outcome = "error"
                /\ \A j \in (i + 1)..Len(calls[u]) : ~calls[u][j].mut
    /\ op = "checkpoint" =>
         \A k \in cand \cup DOMAIN cpcalls : results[k].Error = ""

\* C13: Preconditions reports a repository eligible exactly when it has an
\* origin remote and no rebase or merge is under way; when it reports not
\* eligible, Push and Pull end the repository skipped with the reason as a
\* warning, no error, and no further Executor call.
C13_PreconditionsExact ==
    \A u \in Units :
        (op \in {"push", "pull"} /\ HandlerReturned(u)) =>
            /\ calls[u][1].ok <=> Eligible(Before(u))
            /\ ~calls[u][1].ok =>
                 /\ local[u].Outcome = "skipped"
                 /\ Len(local[u].Warnings) = 1
                 /\ local[u].Errors = << >>
                 /\ Len(calls[u]) = 1

\* The handler of unit u made a call of verb that succeeded / that failed.
Succeeded(u, verb) ==
    \E i \in 1..Len(calls[u]) : calls[u][i].verb = verb /\ calls[u][i].ok

Failed(u, verb) ==
    \E i \in 1..Len(calls[u]) : calls[u][i].verb = verb /\ ~calls[u][i].ok

HandlerCalls ==
    {calls[u] : u \in {v \in Units : HandlerReturned(v)}}
    \cup {cpcalls[k] : k \in DOMAIN cpcalls}

\* The generator was consulted and returned an error or the empty string.
GenerationFailed(cs) ==
    \E i \in 1..Len(cs) :
        cs[i].verb = "CommitMessage" /\ (~cs[i].ok \/ cs[i].msg = "")

\* C15: in Push and Checkpoint the message passed to CommitAllowEmpty is
\* never empty, and whenever the generator returned an error or the empty
\* string the commit is made with the fallback message, so that the handler
\* goes on as it does with a generated message.
C15_FallbackMessage ==
    op \in {"push", "checkpoint"} =>
        \A cs \in HandlerCalls : \A i \in 1..Len(cs) :
            cs[i].verb = "CommitAllowEmpty" =>
                /\ cs[i].msg # ""
                /\ GenerationFailed(cs) => cs[i].msg = "fallback"

\* C16: whatever the generator returns, an error or an empty response
\* included, no command fails or returns an error because of it.
C16_GeneratorNeverFatal == mainpc # "failed"

\* The run is a Push, Pull or Checkpoint that has finished and has processed
\* at least one repository.
ProcessedRun ==
    /\ mainpc = "done"
    /\ \/ op \in {"push", "pull"} /\ Len(repos) >= 1
       \/ op = "checkpoint" /\ DOMAIN cpcalls # {}

\* How many calls of Save wrote the report.
Written == Cardinality({i \in 1..Len(saved) : saved[i]})

\* Every handler has returned and every repository's entry is in the report.
AllAppended ==
    /\ \A u \in Units : upc[u] = "done"
    /\ op \in {"push", "pull"} => Len(report) = Len(repos)
    /\ op = "checkpoint" => cand = {} /\ Len(report) = Cardinality(DOMAIN cpcalls)

\* C17 as stated: in every Push, Pull or Checkpoint run that processes at
\* least one repository the report is written to storage exactly once, after
\* every entry has been appended and while no handler is running.
C17_WrittenExactlyOnce ==
    /\ ProcessedRun => Written = 1
    /\ saved # << >> => AllAppended

\* C17: in every Push, Pull or Checkpoint run that processes at least one
\* repository Save is called exactly once, after every entry has been
\* appended and while no handler is running; the report is in storage once
\* if that call's write succeeds and not at all if it fails.
C17_SavedOnce ==
    /\ op \in {"push", "pull", "checkpoint"} => Len(saved) <= 1
    /\ ProcessedRun => Len(saved) = 1 /\ Written = (IF saved[1] THEN 1 ELSE 0)
    /\ saved # << >> => AllAppended

C17_Witness ==
    /\ op = "push"
    /\ Len(repos) = MaxRepos
    /\ mainpc = "done"
    /\ saved = <<TRUE>>
    /\ Len(report) = MaxRepos

\* The units inside the critical section: between mu.Lock() and mu.Unlock().
InCritical == {u \in Units : upc[u] \in {"locked", "added"}}

\* C18: appends to the shared report never overlap: at most one unit is
\* between Lock and Unlock, that unit is the holder of the one mutex, an
\* entry is appended only by the holder, and a unit whose handler (and so
\* any Git call) has yet to run or return does not hold the mutex.
C18_AppendsSerialized ==
    /\ Cardinality(InCritical) <= 1
    /\ \A u \in Units : (u \in InCritical) <=> (mu = u)
    /\ \A u \in Units : upc[u] \in {"idle", "spawned", "acquired"} => mu # u
    /\ InCritical = {} => mu = 0

\* One unit holds the mutex while another, its handler returned, waits for it.
C18_Witness ==
    /\ op = "push"
    /\ \E u, v \in Units : upc[u] = "locked" /\ mu = u /\ upc[v] = "handled"

\* Discover has returned to the command.
DiscoverReturned == dpc \in {"returned", "error", "norepos", "processing"}

\* C19: if the walk reports an error, Discover returns the error and no
\* repository list, and the command returns that error: it neither goes on to
\* the handlers nor writes a report.
C19_WalkErrorFatal ==
    /\ (werr /\ DiscoverReturned) =>
          /\ found = << >>
          /\ dpc \in {"returned", "error"}
          /\ mainpc = "off" /\ report = << >> /\ saved = << >>
    /\ dpc = "error" => werr

\* The walk failed after a repository had been found in the tree.
C19_Witness ==
    /\ werr
    /\ dpc = "error"
    /\ ValidRepoDirs # {}

\* The units whose entry has been appended to the report or the result map.
Recorded == {u \in Units : upc[u] \in {"added", "unlocked", "released", "done"}}

C21_WriteOnce ==
    [][\A n \in DOMAIN reportDir : n \in DOMAIN reportDir' /\ reportDir'[n] = reportDir[n]]_vars

\* The branch-creating call of unit u ran and succeeded on branch b.
Recreated(u, b) ==
    /\ b \in Branches
    /\ \E i \in 1..Len(calls[u]) :
         calls[u][i].verb = "SwitchCreate" /\ calls[u][i].ran /\ calls[u][i].ok

\* The branch a Push or Pull run creates for unit u: the WIP prefix, or the
\* remote WIP branch selected.
TargetBranch(u) ==
    IF op = "push" THEN WipName(cfg.now)
    ELSE IF Len(local[u].Details) >= 2 THEN local[u].Details[2] ELSE << >>

\* C22: Push and Pull are not destructive: no push moves a branch of origin
\* back, and no local branch that existed before the run at another commit
\* than the one checked out is reset by the run's branch creation.
C22_NotDestructive ==
    \A u \in Units :
        (op \in {"push", "pull"} /\ HandlerReturned(u)) =>
            /\ \A b \in Branches :
                 At(git, repos[u].Path).origin[b] >= Before(u).origin[b]
            /\ LET b == TargetBranch(u)
               IN  (Recreated(u, b) /\ Before(u).heads[b] > 0) =>
                       Before(u).heads[b] = Before(u).heads[Before(u).branch]

\* The repository has dirty files, untracked files or commits ahead of its
\* upstream.
HasChanges(g) ==
    \/ g.modified \cup g.staged \cup g.unmerged \cup g.untracked # {}
    \/ getAhead(g) > 0

\* C23: Checkpoint processes a repository only if it has changes (dirty
\* files, untracked files or commits ahead of its upstream): a repository with
\* none is no candidate and no Executor call is made for it after Status.
C23_OnlyChangedCheckpointed ==
    \A u \in Units :
        (op = "checkpoint" /\ ~HasChanges(Before(u))) =>
            /\ repos[u].Name \notin cand
            /\ repos[u].Name \notin DOMAIN cpcalls

\* The calls of processRepoPush, in the order of the steps they belong to:
\* PreconditionCheck, Fetch, StageDecision, MessageGeneration, BranchCreate,
\* Commit, PushWIP, SwitchBackAndPushOriginal.
PushOrder ==
    <<"Preconditions", "Fetch", "Status", "HasJunkFiles", "ConfirmAdd", "AddAll",
      "CommitMessage", "ConfirmMessage", "SwitchCreate", "CommitAllowEmpty", "PushUpstream",
      "RemoteHasBranch", "Switch", "Push">>

PushRank(verb) == CHOOSE k \in 1..Len(PushOrder) : PushOrder[k] = verb

\* The calls of cs are calls of Push made in the order of its steps.
InPushOrder(cs) ==
    /\ \A i \in 1..Len(cs) : \E k \in 1..Len(PushOrder) : PushOrder[k] = cs[i].verb
    /\ \A i, j \in 1..Len(cs) :
         i < j => PushRank(cs[i].verb) < PushRank(cs[j].verb)

\* Every call of cs that another call follows succeeded; a generator that
\* returns an error completes its step with the fallback message.
PredecessorsSucceeded(cs) ==
    \A i \in 1..Len(cs) :
        (i < Len(cs) /\ cs[i].verb # "CommitMessage") => cs[i].ok

\* C24: in a Push run the steps of every repository follow the order
\* PreconditionCheck, Fetch, StageDecision, MessageGeneration, BranchCreate,
\* Commit, PushWIP, SwitchBackAndPushOriginal, and no step starts before all
\* its predecessors have completed successfully.
C24_PushStepOrder ==
    \A u \in Units :
        (op = "push" /\ HandlerReturned(u)) =>
            InPushOrder(calls[u]) /\ PredecessorsSucceeded(calls[u])

\* The order alone, which holds whatever fails.
PushOrderOnly ==
    \A u \in Units : (op = "push" /\ HandlerReturned(u)) => InPushOrder(calls[u])

PullOps == {"pull", "pullParsed"}

C26_CallsInRepoPath ==
    op = "checkpoint" =>
        \A k \in DOMAIN cpcalls :
            \E u \in Units : repos[u].Name = k /\ repos[u].Path = CheckpointDir(k)

\* C27: Status reports Dirty equal to the number of entries of the
\* repository's git status --porcelain output, 0 when that output is empty.
C27_DirtyIsPorcelainCount ==
    \A u \in Units :
        (op = "status" /\ HandlerReturned(u) /\ local[u].Error = ""
         /\ local[u].HasOrigin /\ ~local[u].InProgress) =>
            local[u].Dirty = Len(Porcelain(Before(u)))

\* The Stash step of unit u's Pull pushed a stash entry.
StashPushed(u) ==
    /\ \E i \in 1..Len(calls[u]) :
         calls[u][i].verb = "Stash" /\ calls[u][i].ran /\ calls[u][i].ok
    /\ Before(u).modified \cup Before(u).staged \cup Before(u).untracked # {}

C29_OriginalBranchKept ==
    op \in {"push", "checkpoint"} =>
        \A dir \in DOMAIN git :
            git0[dir].branch \in Branches =>
                git[dir].heads[git0[dir].branch] = git0[dir].heads[git0[dir].branch]

\* The same for Push alone.
PushKeepsOriginalBranch ==
    op = "push" =>
        \A dir \in DOMAIN git :
            git0[dir].branch \in Branches =>
                git[dir].heads[git0[dir].branch] = git0[dir].heads[git0[dir].branch]

\* The step of Pull a call belongs to: 1 PreconditionCheck, 2 Fetch,
\* 3 FindLatestRemoteWIP, 4 Stash, 5 SwitchOrCreateTracking, 6 StashPop,
\* 7 ConflictCheck; 0 for a call of no step.
PullStepOf(verb) ==
    IF verb = "Preconditions" THEN 1
    ELSE IF verb = "Fetch" THEN 2
    ELSE IF verb = "LatestRemoteWIP" THEN 3
    ELSE IF verb = "Stash" THEN 4
    ELSE IF verb \in {"SwitchCreate", "Switch"} THEN 5
    ELSE IF verb = "StashPop" THEN 6
    ELSE IF verb = "HasConflicts" THEN 7
    ELSE 0

\* The calls of cs that belong to the steps of Pull: the Status query for
\* the name of the original branch is none of them.
PullSteps(cs) == SelectSeq(cs, LAMBDA c : c.verb # "Status")

-----------------------------------------------------------------------------
\* The ref enumeration of unit u's Pull handler: the fourth call it logs.
Enumerated(u) ==
    op \in PullOps /\ HandlerReturned(u) /\ Len(calls[u]) >= 4
    /\ calls[u][4].verb = "LatestRemoteWIP"

\* C31: Pull ends a repository with outcome no-wip exactly when no ref exists
\* under refs/remotes/origin/wip/ after the fetch: with at least one such ref
\* the outcome is not no-wip, and a failure of the enumeration command itself
\* is reported as error, not as no-wip.
C31_NoWipExact ==
    \A u \in Units :
        Enumerated(u) =>
            LET g == At(git, repos[u].Path)
            IN  /\ local[u].Outcome = "no-wip"
                    <=> (calls[u][4].ok /\ TrackedWip(g) = {})
                /\ ~calls[u][4].ok => local[u].Outcome = "error"

-----------------------------------------------------------------------------
\* SpecStatus: CollectStatus over two repositories with distinct paths, whose
\* last path segments differ or are the same.
InitStatus ==
    \E K \in 1..MaxK, second \in {<<"y">>, <<"a", "x">>}, g1 \in FanGits,
       g2 \in FanGits :
        RunStarts("status", Flags(K, FALSE, FALSE, FALSE, TRUE),
                  <<RepoAt(<<"x">>), RepoAt(second)>>,
                  (<<"x">> :> g1) @@ (second :> g2))

NextStatus ==
    \/ Spawn
    \/ \E u \in Units : Acquire(u)
    \/ \E u \in Units : HandleStatus(u)
    \/ \E u \in Units : Lock(u)
    \/ \E u \in Units : Collect(u)
    \/ \E u \in Units : Unlock(u)
    \/ \E u \in Units : Release(u)
    \/ \E u \in Units : Done(u)
    \/ Wait
    \/ Cancel

SpecStatus == InitStatus /\ [][NextStatus]_vars

\* C32: CollectStatus returns exactly one status per input repository: for
\* repositories with distinct paths, two with the same last path segment
\* included, the result has as many entries as there are repositories and
\* holds for each repository the status computed for it.
C32_OneStatusPerRepo ==
    (op = "status" /\ mainpc = "done") =>
        /\ Cardinality(DOMAIN results) = Len(repos)
        /\ \A u \in Units :
             /\ repos[u].Name \in DOMAIN results
             /\ results[repos[u].Name] = local[u]

\* The same for repositories whose names differ.
DistinctNamesKept ==
    (op = "status" /\ mainpc = "done"
     /\ \A u, v \in Units : u # v => repos[u].Name # repos[v].Name) =>
        /\ Cardinality(DOMAIN results) = Len(repos)
        /\ \A u \in Units :
             /\ repos[u].Name \in DOMAIN results
             /\ results[repos[u].Name] = local[u]

-----------------------------------------------------------------------------
\* The handler of unit u asked the user verb and was answered answer.
Answered(u, verb, answer) ==
    \E i \in 1..Len(calls[u]) : calls[u][i].verb = verb /\ calls[u][i].msg = answer

\* The Push handler of unit u has returned, its junk guard having run and
\* found no junk file.
PassedJunkGuard(u) ==
    /\ op = "push"
    /\ HandlerReturned(u)
    /\ Succeeded(u, "HasJunkFiles")
    /\ ~HasJunkFiles(Before(u), {}).has

\* C34: in Push, for a repository with changes that passes the junk guard,
\* AddAll is invoked only if --auto-add is set, or the concurrency limit is 1
\* and the user confirmed the prompt; if the user declines, or auto-add is off
\* with a limit other than 1, the repository ends skipped and no staging,
\* branch creation, commit or push occurs for it.
C34_StageDecision ==
    \A u \in Units :
        PassedJunkGuard(u) =>
            LET allowed == cfg.autoAdd
                           \/ (cfg.K = 1 /\ Answered(u, "ConfirmAdd", "yes"))
            IN  /\ "AddAll" \in Verbs(calls[u]) => allowed
                /\ ~allowed =>
                     /\ local[u].Outcome = "skipped"
                     /\ MutatingVerbs(calls[u]) \subseteq {"Fetch"}
                     /\ LET g == At(git, repos[u].Path)
                        IN  /\ g.staged = Before(u).staged
                            /\ g.heads = Before(u).heads
                            /\ g.remote = Before(u).remote

\* A repository with an untracked file, not junk, whose user declined the
\* staging prompt.
C34_Witness ==
    \E u \in Units :
        /\ PassedJunkGuard(u)
        /\ ~cfg.dryRun
        /\ Before(u).untracked # {}
        /\ Answered(u, "ConfirmAdd", "no")
        /\ local[u].Outcome = "skipped"

-----------------------------------------------------------------------------
\* SpecPush: runPush over two repositories with an untracked file each, with
\* and without --auto-add and --ai-review, the latter with and without
\* --ai-commit.
InitPush ==
    \E K \in 1..MaxK, autoAdd \in BOOLEAN, ai \in BOOLEAN, review \in BOOLEAN,
       g \in {[BaseGit EXCEPT !.untracked = {PlainPath}]} :
        /\ ai => review
        /\ RunStarts("push", runPushFlags([Flags(K, FALSE, autoAdd, ai, TRUE)
                                             EXCEPT !.aiReview = review]),
                     <<RepoAt(<<"x">>), RepoAt(<<"y">>)>>,
                     (<<"x">> :> g) @@ (<<"y">> :> g))

NextPush ==
    \/ Spawn
    \/ \E u \in Units : Acquire(u)
    \/ \E u \in Units : HandlePush(u)
    \/ \E u \in Units : Lock(u)
    \/ \E u \in Units : Collect(u)
    \/ \E u \in Units : Unlock(u)
    \/ \E u \in Units : Release(u)
    \/ \E u \in Units : Done(u)
    \/ Wait
    \/ Save
    \/ Cancel

SpecPush == InitPush /\ [][NextPush]_vars

\* The handler of unit u asked the user for a confirmation.
Prompted(u) ==
    \E i \in 1..Len(calls[u]) : calls[u][i].verb \in {"ConfirmAdd", "ConfirmMessage"}

\* C35: in a Push run at most one confirmation prompt (staging confirmation
\* or AI-message acceptance) is outstanding at any instant: --ai-review makes
\* the concurrency limit 1 before any handler starts, the staging prompt is
\* issued only with a limit of 1, and while a handler that prompts runs no
\* other handler is running.
C35_OnePromptAtATime ==
    /\ [](op = "push" =>
            /\ cfg.aiReview => cfg.K = 1
            /\ \A u \in Units : Prompted(u) => cfg.K = 1)
    /\ [][\A v \in Units :
            (op = "push" /\ upc[v] = "acquired" /\ upc'[v] = "handled"
             /\ Prompted(v)') =>
                \A u \in Units \ {v} : upc[u] # "acquired"]_vars

\* Both handlers of a run with --ai-review asked the user to accept a
\* generated message.
C35_Witness ==
    /\ op = "push"
    /\ cfg.aiReview
    /\ Len(repos) = 2
    /\ \A u \in Units :
         HandlerReturned(u)
         /\ \E i \in 1..Len(calls[u]) : calls[u][i].verb = "ConfirmMessage"

-----------------------------------------------------------------------------
\* C36: at every terminal outcome of Push for a repository (success, skipped
\* or error) the checked-out branch of the repository is the branch that was
\* checked out when Push started.
C36_PushRestoresBranch ==
    \A u \in Units :
        (op = "push" /\ HandlerReturned(u)
         /\ local[u].Outcome \in {"success", "skipped", "error"}) =>
            At(git, repos[u].Path).branch = Before(u).branch

-----------------------------------------------------------------------------
RECURSIVE SumSuccess(_, _)
\* The sum, over the success entries of es, of field f1 plus field f2.
SumSuccess(es, fs) ==
    IF es = << >> THEN 0
    ELSE (IF Head(es).Outcome = "success"
          THEN (IF fs = "files"
                THEN Head(es).FilesModified + Head(es).FilesAdded
                ELSE Head(es).LinesAdded + Head(es).LinesRemoved)
          ELSE 0)
         + SumSuccess(Tail(es), fs)

\* The counters of the checkpoint report agree with its entries.
TotalsAgree ==
    /\ totals.ProcessedRepos = Len(report)
    /\ totals.ProcessedRepos
         = totals.SuccessfulRepos + totals.FailedRepos + totals.SkippedRepos
    /\ totals.TotalFiles = SumSuccess(report, "files")
    /\ totals.TotalLines = SumSuccess(report, "lines")

-----------------------------------------------------------------------------
\* SpecLive: processConcurrently, and the same fan-out of runPush and runPull,
\* over handlers that return some entry, every goroutine that can run being
\* run eventually.
InitLive ==
    \E n \in 1..MaxRepos, K \in 1..MaxK, req \in BOOLEAN :
        RunStarts("generic", Flags(K, FALSE, TRUE, FALSE, req),
                  [i \in 1..n |-> RepoAt(<<PathNames[i]>>)],
                  [q \in {<<PathNames[i]>> : i \in 1..n} |-> BaseGit])

NextLive ==
    \/ Spawn
    \/ \E u \in Units : Acquire(u)
    \/ \E u \in Units : HandleGeneric(u)
    \/ \E u \in Units : Lock(u)
    \/ \E u \in Units : SkipCollect(u)
    \/ \E u \in Units : Collect(u)
    \/ \E u \in Units : Unlock(u)
    \/ \E u \in Units : Release(u)
    \/ \E u \in Units : Done(u)
    \/ Wait
    \/ Save
    \/ Cancel

SpecLive == InitLive /\ [][NextLive]_vars /\ WF_vars(NextLive)

\* The positions a unit goes through, in order.
UnitPath ==
    <<"idle", "spawned", "acquired", "handled", "locked", "added", "unlocked",
      "released", "done">>

UnitRank(pc) == CHOOSE k \in 1..Len(UnitPath) : UnitPath[k] = pc

\* Every unit has acquired and released its slot, and the coordinator has
\* returned.
AllReleased ==
    /\ mainpc = "done"
    /\ \A u \in Units : upc[u] = "done"
    /\ sem = 0
    /\ mu = 0
    /\ wg = 0

\* C38: for every concurrency limit K >= 1 and every finite repository list
\* whose handlers each terminate, the coordinator eventually returns: every
\* unit eventually acquires a semaphore slot, every acquired slot is
\* eventually released, whatever the handler's outcome, and the semaphore and
\* the report mutex never block each other for good. A unit reaches its end
\* only through its acquire and its release.
C38_CoordinatorReturns ==
    /\ <>[]AllReleased
    /\ [][\A u \in Units :
            upc'[u] # upc[u] =>
                /\ UnitRank(upc'[u]) > UnitRank(upc[u])
                /\ (UnitRank(upc[u]) < 3 => upc'[u] \in {"spawned", "acquired"})
                /\ (upc'[u] = "acquired" => sem' = sem + 1)
                /\ (upc'[u] \in {"released", "done"} =>
                      upc[u] \in {"unlocked", "released"})
                /\ (upc'[u] = "released" => sem' = sem - 1)]_vars

\* Two units under a limit of 1: one holds the only slot and the mutex, the
\* other waits for the slot.
C38_Witness ==
    /\ cfg.K = 1
    /\ Len(repos) = 2
    /\ \E u, v \in Units :
         /\ upc[u] = "locked"
         /\ upc[v] = "spawned"
         /\ sem = 1
         /\ mu = 1

-----------------------------------------------------------------------------
\* SpecZero: the fan-out of SpecLive with a concurrency limit from 0 on:
\* make(chan struct{}, 0) is a channel without buffer.
InitZero ==
    \E n \in 1..MaxRepos, K \in 0..MaxK, req \in BOOLEAN :
        RunStarts("generic", Flags(K, FALSE, TRUE, FALSE, req),
                  [i \in 1..n |-> RepoAt(<<PathNames[i]>>)],
                  [q \in {<<PathNames[i]>> : i \in 1..n} |-> BaseGit])

SpecZero == InitZero /\ [][NextLive]_vars /\ WF_vars(NextLive)

\* C39: with a concurrency limit of 0 a run over a non-empty repository list
\* still terminates, by rejecting the value or by processing the
\* repositories, rather than blocking forever on the semaphore.
C39_ZeroLimitTerminates ==
    (cfg.K = 0 /\ Len(repos) > 0) ~> (mainpc \in {"done", "failed"})

\* With a limit of 1 or more the same run terminates.
PositiveLimitTerminates ==
    (cfg.K > 0 /\ Len(repos) > 0) ~> (mainpc \in {"done", "failed"})

====
